---- MODULE Spec2Model ----
(***************************************************************************)
(* OpenMarch canvas (SceneSync and ViewportController).                    *)
(*                                                                         *)
(* The canvas is a fabric.Canvas: an ordered list of objects plus at most  *)
(* one active object.  Every object carries a runtime class (its kind),    *)
(* the only thing the instanceof filters of OpenMarchCanvas.ts read.       *)
(* Coordinates are integers; a MarcherPage is reduced to the fields the    *)
(* canvas reads (marcher_id, x, y).  Zoom is a fixed-point number in       *)
(* hundredths (1.00 = 100).                                                *)
(***************************************************************************)
EXTENDS Integers, Sequences, FiniteSets, TLC

\* ------------------------------------------------------------------ bounds
MaxLen == 2         \* longest MarcherPage list handed to one render call
MaxObjects == 4     \* most objects on the canvas, the field grid included
MaxDelta == 3       \* largest ordinary wheel delta, in notches of 100
MaxTimers == 2      \* most timer handles in use at once
MaxMarchers == 3    \* most marchers handed to one step size batch
MaxPages == 3       \* pages of the show
MaxUpdates == 1     \* most patch lists submitted and not yet taken up
MaxDispatches == 2  \* most events one rendering of the handler takes
MaxListeners == 3   \* most handlers registered for one event

\* ------------------------------------------------------------- input sets
MarcherIds == {1, 2}
\* the two points a MarcherPage may lie on; x and y differ in the second
MarcherPages == [marcher_id : MarcherIds, x : {0, 1}, y : {0, 2}]
SelectedPagePositions == {mp \in MarcherPages : mp.x = 0 /\ mp.y = 0}
OtherPagePositions == {mp \in MarcherPages : mp.x = 1 /\ mp.y = 2}
PagePositions == SelectedPagePositions \cup OtherPagePositions
Lists(S, n) == UNION {[1..k -> S] : k \in 0..n}
MarcherPageLists == Lists(PagePositions, MaxLen)
SelectedPageLists == Lists(SelectedPagePositions, MaxLen)
OtherPageLists == Lists(OtherPagePositions, MaxLen)
MarcherLists == SUBSET MarcherIds
\* the marcher store of a running show: complete, or short of marcher 2
Stores == {MarcherIds, {1}}
\* the positions of marcher 1 on the selected page
StartPageLists == Lists({mp \in SelectedPagePositions : mp.marcher_id = 1}, MaxLen)
UiSettingsSet == [lockX : BOOLEAN, lockY : BOOLEAN]
\* WheelEvent.deltaY: notches of 100, or, when far is set, a delta so large that
\* 0.999 ** delta leaves the range of a double (Infinity or 0)
WheelDeltas == [notches : (-MaxDelta)..MaxDelta, far : BOOLEAN]

\* the handles setTimeout returns; 0 stands for the undefined zoomTimeout of a
\* new canvas.  The host never hands out a handle twice; a handle that is
\* neither pending nor held by the canvas cannot be told from a new one, so
\* such a handle is handed out again.
TimerIds == 1..MaxTimers

None == [type |-> "none"]

VARIABLES
    objects,        \* fabric.Canvas._objects, in insertion order
    activeObject,   \* fabric.Canvas._activeObject
    selectedMarchers, \* what setSelectedMarchers last published
    renderPending,  \* a requestRenderAll() not yet served by a frame
    zoom,           \* viewport zoom, in hundredths
    objectCaching,  \* staticGridRef.objectCaching
    zoomTimeout,    \* this.zoomTimeout: the handle of the last zoom timer
    timers,         \* the host's timer table: the handles still pending
    app,            \* the stores and contexts RegisteredActionsHandler reads
    handler,        \* what the callbacks of its last render have captured
    marcherPageList, \* MarcherPageList: its selection, its state, its fetches
    eventListeners, \* fabric.Observable.__eventListeners of the canvas
    op              \* the last operation: its name and the number of
                    \* console.error reports it made

canvasVars == <<objects, activeObject, selectedMarchers, renderPending>>
zoomVars == <<zoom, objectCaching, zoomTimeout, timers>>
appVars == <<app, handler, marcherPageList>>
listenerVars == <<eventListeners>>
vars == <<objects, activeObject, selectedMarchers, renderPending,
          zoom, objectCaching, zoomTimeout, timers, app, handler,
          marcherPageList, eventListeners, op>>

\* ----------------------------------------------------------- canvas objects
\* An object is identified by its rank in the object list: the calls of
\* OpenMarchCanvas.ts add (append) and remove, none reorders, so the survivors
\* of a call keep their order.

\* the field grid the constructor adds (a fabric.Group, selectable: false)
staticGridRef ==
    [kind |-> "Group", marcher_id |-> 0, coords |-> <<>>,
     lockMovementX |-> FALSE, lockMovementY |-> FALSE]

\* new CanvasMarcher({ marcher, marcherPage })
CanvasMarcher(marcherPage) ==
    [kind |-> "CanvasMarcher", marcher_id |-> marcherPage.marcher_id,
     coords |-> <<marcherPage.x, marcherPage.y>>,
     lockMovementX |-> FALSE, lockMovementY |-> FALSE]

\* new StaticCanvasMarcher({ marcher, marcherPage, color })
StaticCanvasMarcher(marcherPage) ==
    [kind |-> "StaticCanvasMarcher", marcher_id |-> marcherPage.marcher_id,
     coords |-> <<marcherPage.x, marcherPage.y>>,
     lockMovementX |-> FALSE, lockMovementY |-> FALSE]

\* new Pathway({ start, end, color })
Pathway(start, end) ==
    [kind |-> "Pathway", marcher_id |-> start.marcher_id,
     coords |-> <<start.x, start.y, end.x, end.y>>,
     lockMovementX |-> FALSE, lockMovementY |-> FALSE]

\* canvasMarcher.setMarcherCoords(marcherPage)
setMarcherCoords(obj, marcherPage) ==
    [obj EXCEPT !.coords = <<marcherPage.x, marcherPage.y>>]

\* fabric.Canvas.add(object): appended to the object list
add(objs, obj) == Append(objs, obj)

\* ranks of the objects of one runtime class: obj instanceof type
RanksByType(objs, type) == {i \in 1..Len(objs) : objs[i].kind = type}
\* getObjects().filter((obj) => obj instanceof type)
getObjectsByType(objs, type) == SelectSeq(objs, LAMBDA o : o.kind = type)
getCanvasMarchers(objs) == getObjectsByType(objs, "CanvasMarcher")
getStaticCanvasMarchers(objs) == getObjectsByType(objs, "StaticCanvasMarcher")
getPathways(objs) == getObjectsByType(objs, "Pathway")

\* Array.prototype.find by marcher id: rank of the first match, 0 if none
FindByMarcher(list, marcher_id) ==
    IF \E i \in 1..Len(list) : list[i].marcher_id = marcher_id
    THEN CHOOSE i \in 1..Len(list) :
            /\ list[i].marcher_id = marcher_id
            /\ \A j \in 1..(i - 1) : list[j].marcher_id # marcher_id
    ELSE 0

\* curCanvasMarchers.find(...) seen from the canvas: rank, in the object list,
\* of the first CanvasMarcher of the list taken before the loop (the first n
\* objects) that is bound to the marcher; 0 if none
FindCanvasMarcher(objs, n, marcher_id) ==
    LET hits == {i \in 1..n : objs[i].kind = "CanvasMarcher"
                              /\ objs[i].marcher_id = marcher_id}
    IN IF hits = {} THEN 0
       ELSE CHOOSE i \in hits : \A j \in hits : i <= j

Op(name, errors) == [name |-> name, errors |-> errors]

\* the state of a forEach loop: the object list and the console.error count
Loop(objs, errors) == [objects |-> objs, errors |-> errors]
report(loop) == [loop EXCEPT !.errors = @ + 1]

\* ------------------------------------------------------------ renderMarchers
\* selectedMarcherPages.forEach from index i on; n is the length the object
\* list had when curCanvasMarchers was taken, once, before the loop.
\* mutant: a marker that is already on the canvas is left where it is
RECURSIVE renderMarchersLoop_NoMove(_, _, _, _, _)
renderMarchersLoop_NoMove(loop, n, selectedMarcherPages, allMarchers, i) ==
    IF i > Len(selectedMarcherPages) THEN loop
    ELSE
      LET marcherPage == selectedMarcherPages[i]
          curCanvasMarcher == FindCanvasMarcher(loop.objects, n,
                                                marcherPage.marcher_id)
      IN IF curCanvasMarcher = 0 /\ marcherPage.marcher_id \in allMarchers
         THEN renderMarchersLoop_NoMove(
                  [loop EXCEPT !.objects = add(@, CanvasMarcher(marcherPage))],
                  n, selectedMarcherPages, allMarchers, i + 1)
         ELSE renderMarchersLoop_NoMove(
                  IF curCanvasMarcher = 0 THEN report(loop) ELSE loop,
                  n, selectedMarcherPages, allMarchers, i + 1)

RECURSIVE renderMarchersLoop(_, _, _, _, _)
renderMarchersLoop(loop, n, selectedMarcherPages, allMarchers, i) ==
    IF i > Len(selectedMarcherPages) THEN loop
    ELSE
      LET marcherPage == selectedMarcherPages[i]
          curCanvasMarcher == FindCanvasMarcher(loop.objects, n,
                                                marcherPage.marcher_id)
      IN IF curCanvasMarcher = 0
         THEN IF marcherPage.marcher_id \notin allMarchers
              THEN \* console.error, return
                   renderMarchersLoop(report(loop), n, selectedMarcherPages,
                                      allMarchers, i + 1)
              ELSE renderMarchersLoop(
                       [loop EXCEPT !.objects = add(@, CanvasMarcher(marcherPage))],
                       n, selectedMarcherPages, allMarchers, i + 1)
         ELSE renderMarchersLoop(
                  [loop EXCEPT !.objects[curCanvasMarcher] =
                                   setMarcherCoords(@, marcherPage)],
                  n, selectedMarcherPages, allMarchers, i + 1)

\* mutant: a reconciliation pass first drops the markers of the marchers that
\* have no position in the list
renderMarchersResult_Reconcile(objs, selectedMarcherPages, allMarchers) ==
    LET stale(o) == /\ o.kind = "CanvasMarcher"
                    /\ FindByMarcher(selectedMarcherPages, o.marcher_id) = 0
        kept == SelectSeq(objs, LAMBDA o : ~stale(o))
    IN renderMarchersLoop(Loop(kept, 0), Len(kept), selectedMarcherPages,
                          allMarchers, 1)

renderMarchersResult(objs, selectedMarcherPages, allMarchers) ==
    renderMarchersLoop(Loop(objs, 0), Len(objs), selectedMarcherPages,
                       allMarchers, 1)

renderMarchers(selectedMarcherPages, allMarchers) ==
    LET result == renderMarchersResult(objects, selectedMarcherPages, allMarchers)
    IN /\ Len(result.objects) <= MaxObjects
       /\ objects' = result.objects
       /\ renderPending' = TRUE
       /\ op' = Op("renderMarchers", result.errors)
       /\ UNCHANGED <<activeObject, selectedMarchers, zoomVars, listenerVars,
                   appVars>>

\* ------------------------------------------------------ renderStaticMarchers
RECURSIVE renderStaticMarchersLoop(_, _, _, _)
renderStaticMarchersLoop(loop, intendedMarcherPages, allMarchers, i) ==
    IF i > Len(intendedMarcherPages) THEN loop
    ELSE
      LET marcherPage == intendedMarcherPages[i]
      IN IF marcherPage.marcher_id \notin allMarchers
         THEN \* console.error, return
              renderStaticMarchersLoop(report(loop), intendedMarcherPages,
                                       allMarchers, i + 1)
         ELSE renderStaticMarchersLoop(
                  [loop EXCEPT !.objects = add(@, StaticCanvasMarcher(marcherPage))],
                  intendedMarcherPages, allMarchers, i + 1)

renderStaticMarchersResult(objs, intendedMarcherPages, allMarchers) ==
    renderStaticMarchersLoop(Loop(objs, 0), intendedMarcherPages, allMarchers, 1)

renderStaticMarchers(intendedMarcherPages, allMarchers) ==
    LET result == renderStaticMarchersResult(objects, intendedMarcherPages, allMarchers)
    IN /\ Len(result.objects) <= MaxObjects
       /\ objects' = result.objects
       /\ renderPending' = TRUE
       /\ op' = Op("renderStaticMarchers", result.errors)
       /\ UNCHANGED <<activeObject, selectedMarchers, zoomVars, listenerVars,
                   appVars>>

\* the ghosts of a page drawn on a canvas that holds no ghost
previewPage(intendedMarcherPages, allMarchers) ==
    /\ getStaticCanvasMarchers(objects) = <<>>
    /\ renderStaticMarchers(intendedMarcherPages, allMarchers)

\* ------------------------------------------------------------------ sweeps
\* list.forEach((o) => this.remove(o)) for the objects at the given ranks
removeAll(objs, ranks) ==
    LET keep == {i \in 1..Len(objs) : i \notin ranks}
        rankOf(k) == CHOOSE i \in keep : Cardinality({j \in keep : j <= i}) = k
    IN [k \in 1..Cardinality(keep) |-> objs[rankOf(k)]]

\* the rank an object has once the objects at the given ranks are gone
NewRank(i, ranks) == i - Cardinality({j \in ranks : j < i})

\* fabric.Canvas.remove discards the active object when it is the one removed;
\* the members of an active selection are followed to their new ranks
activeAfterRemove(active, ranks) ==
    IF active.type = "object"
    THEN IF active.rank \in ranks THEN None
         ELSE [active EXCEPT !.rank = NewRank(@, ranks)]
    ELSE IF active.type = "activeSelection"
    THEN [active EXCEPT !.members = {NewRank(i, ranks) : i \in @ \ ranks}]
    ELSE active

\* mutant: the sweep takes every marcher object, live markers included
removeStaticCanvasMarchersResult_AllMarchers(objs) ==
    removeAll(objs, RanksByType(objs, "StaticCanvasMarcher")
                    \cup RanksByType(objs, "CanvasMarcher"))

removeStaticCanvasMarchersResult(objs) ==
    removeAll(objs, RanksByType(objs, "StaticCanvasMarcher"))

removeStaticCanvasMarchers ==
    /\ objects' = removeStaticCanvasMarchersResult(objects)
    /\ activeObject' = activeAfterRemove(activeObject,
                           RanksByType(objects, "StaticCanvasMarcher"))
    /\ renderPending' = TRUE
    /\ op' = Op("removeStaticCanvasMarchers", 0)
    /\ UNCHANGED <<selectedMarchers, zoomVars, listenerVars, appVars>>

removePathwaysResult(objs) == removeAll(objs, RanksByType(objs, "Pathway"))

removePathways ==
    /\ objects' = removePathwaysResult(objects)
    /\ activeObject' = activeAfterRemove(activeObject, RanksByType(objects, "Pathway"))
    /\ renderPending' = TRUE
    /\ op' = Op("removePathways", 0)
    /\ UNCHANGED <<selectedMarchers, zoomVars, listenerVars, appVars>>

\* ------------------------------------------------------------ renderPathways
\* mutant: a missing start position ends the loop instead of the iteration
RECURSIVE renderPathwaysLoop_Break(_, _, _, _)
renderPathwaysLoop_Break(loop, startPageMarcherPages, endPageMarcherPages, i) ==
    IF i > Len(endPageMarcherPages) THEN loop
    ELSE
      LET previousMarcherPage == endPageMarcherPages[i]
          selectedMarcherPage == FindByMarcher(startPageMarcherPages,
                                               previousMarcherPage.marcher_id)
      IN IF selectedMarcherPage = 0
         THEN report(loop)
         ELSE renderPathwaysLoop_Break(
                  [loop EXCEPT !.objects =
                      add(@, Pathway(previousMarcherPage,
                                     startPageMarcherPages[selectedMarcherPage]))],
                  startPageMarcherPages, endPageMarcherPages, i + 1)

RECURSIVE renderPathwaysLoop(_, _, _, _)
renderPathwaysLoop(loop, startPageMarcherPages, endPageMarcherPages, i) ==
    IF i > Len(endPageMarcherPages) THEN loop
    ELSE
      LET previousMarcherPage == endPageMarcherPages[i]
          selectedMarcherPage == FindByMarcher(startPageMarcherPages,
                                               previousMarcherPage.marcher_id)
      IN IF selectedMarcherPage = 0
         THEN \* console.error, return
              renderPathwaysLoop(report(loop), startPageMarcherPages,
                                 endPageMarcherPages, i + 1)
         ELSE renderPathwaysLoop(
                  [loop EXCEPT !.objects =
                      add(@, Pathway(previousMarcherPage,
                                     startPageMarcherPages[selectedMarcherPage]))],
                  startPageMarcherPages, endPageMarcherPages, i + 1)

renderPathwaysResult(objs, startPageMarcherPages, endPageMarcherPages) ==
    renderPathwaysLoop(Loop(objs, 0), startPageMarcherPages,
                       endPageMarcherPages, 1)

renderPathways(startPageMarcherPages, endPageMarcherPages) ==
    LET result == renderPathwaysResult(objects, startPageMarcherPages,
                                       endPageMarcherPages)
    IN /\ Len(result.objects) <= MaxObjects
       /\ objects' = result.objects
       /\ renderPending' = TRUE
       /\ op' = Op("renderPathways", result.errors)
       /\ UNCHANGED <<activeObject, selectedMarchers, zoomVars, listenerVars,
                   appVars>>

\* ------------------------------------------------- setSelectedCanvasMarchers
\* fabric.Canvas.getActiveObjects(): the members of an active selection, the
\* active object itself, or nothing
getActiveObjects(active) ==
    IF active.type = "activeSelection" THEN active.members
    ELSE IF active.type = "object" THEN {active.rank}
    ELSE {}

\* getActiveObjects().filter((obj) => obj instanceof type)
getActiveObjectsByType(objs, active, type) ==
    {i \in getActiveObjects(active) : objs[i].kind = type}

\* fabric.Canvas.discardActiveObject()
discardActiveObject(active) == None

\* new fabric.ActiveSelection(objects, { canvas: this, ...ActiveObjectArgs })
ActiveSelection(members) ==
    [type |-> "activeSelection", members |-> members,
     lockMovementX |-> FALSE, lockMovementY |-> FALSE]

\* a single object as fabric.Canvas._activeObject
ActiveObject(rank) == [type |-> "object", rank |-> rank]

\* the active object once selectedObjects.length > 1 has been handled
\* (lines 164-181)
setSelectedCanvasMarchersActive(objs, active, selectedObjects) ==
    IF Cardinality(selectedObjects) > 1
    THEN LET discarded == discardActiveObject(active)
             selectedCanvasMarchers ==
                 getActiveObjectsByType(objs, discarded, "CanvasMarcher")
         IN ActiveSelection(selectedCanvasMarchers)   \* setActiveObject
    ELSE active

\* mutant: only the x axis is locked
applyLock_XOnly(obj, uiSettings) ==
    [obj EXCEPT !.lockMovementX = uiSettings.lockX]

\* activeObject.lockMovementX = uiSettings.lockX, ...lockMovementY = ...lockY
applyLock(obj, uiSettings) ==
    [obj EXCEPT !.lockMovementX = uiSettings.lockX,
                !.lockMovementY = uiSettings.lockY]

\* the active object and the object list once the lock settings are applied
\* to the active object, if there is one (lines 164-189)
setSelectedCanvasMarchersResult(objs, activeBefore, selectedObjects, uiSettings) ==
    LET active == setSelectedCanvasMarchersActive(objs, activeBefore,
                                                  selectedObjects)
    IN [activeObject |-> IF active.type = "activeSelection"
                         THEN applyLock(active, uiSettings) ELSE active,
        objects |-> IF active.type = "object"
                    THEN [objs EXCEPT ![active.rank] = applyLock(@, uiSettings)]
                    ELSE objs]

\* the objects a pointer can select: everything but the grid (selectable: false)
Selectable(objs) == {i \in 1..Len(objs) : objs[i].kind # "Group"}

setSelectedCanvasMarchers(selectedObjects, uiSettings, allMarchers) ==
    LET active == setSelectedCanvasMarchersActive(objects, activeObject,
                                                  selectedObjects)
        activeMarcherIds ==
            {objects[i].marcher_id :
                i \in getActiveObjectsByType(objects, active, "CanvasMarcher")}
        newSelectedMarchers == {m \in allMarchers : m \in activeMarcherIds}
        result == setSelectedCanvasMarchersResult(objects, activeObject,
                                                  selectedObjects, uiSettings)
    IN /\ selectedObjects \subseteq Selectable(objects)
       /\ renderPending' = IF Cardinality(selectedObjects) > 1 THEN TRUE
                           ELSE renderPending
       /\ activeObject' = result.activeObject
       /\ objects' = result.objects
       /\ selectedMarchers' = newSelectedMarchers
       /\ op' = Op("setSelectedCanvasMarchers", 0)
       /\ UNCHANGED <<zoomVars, listenerVars, appVars>>

\* fabric's own pointer selection: a click makes one object the active object, a
\* drag makes an active selection of several, a click on the field clears it
pointerSelect(ranks) ==
    /\ ranks \subseteq Selectable(objects)
    /\ activeObject' = IF ranks = {} THEN None
                       ELSE IF Cardinality(ranks) = 1
                       THEN ActiveObject(CHOOSE i \in ranks : TRUE)
                       ELSE ActiveSelection(ranks)
    /\ op' = Op("pointerSelect", 0)
    /\ UNCHANGED <<objects, selectedMarchers, renderPending, zoomVars, listenerVars,
                   appVars>>

\* the frame fabric schedules for requestRenderAll()
renderFrame ==
    /\ renderPending
    /\ renderPending' = FALSE
    /\ op' = Op("renderFrame", 0)
    /\ UNCHANGED <<objects, activeObject, selectedMarchers, zoomVars, listenerVars,
                   appVars>>

\* ---------------------------------------------------------- handleMouseWheel
\* 0.999 ** delta as a factor in ten-thousandths, truncated per notch:
\* 0.999 ** 100 = 0.9048 and 0.999 ** -100 = 1.1052
RECURSIVE Pow999Notches(_)
Pow999Notches(n) ==
    IF n = 0 THEN 10000
    ELSE IF n > 0 THEN (Pow999Notches(n - 1) * 9048) \div 10000
    ELSE (Pow999Notches(n + 1) * 11052) \div 10000

Pow999(delta) ==
    IF ~delta.far THEN [inf |-> FALSE, v |-> Pow999Notches(delta.notches)]
    ELSE IF delta.notches < 0 THEN [inf |-> TRUE, v |-> 0]
    ELSE IF delta.notches > 0 THEN [inf |-> FALSE, v |-> 0]
    ELSE [inf |-> FALSE, v |-> 10000]

\* zoom *= 0.999 ** delta, in hundredths; the product may be Infinity
scaleZoom(z, factor) ==
    IF factor.inf THEN [inf |-> TRUE, v |-> 0]
    ELSE [inf |-> FALSE, v |-> (z * factor.v) \div 10000]

\* mutant: the lower limit is not applied
clampZoom_NoFloor(z) ==
    IF z.inf \/ z.v > 2500 THEN 2500 ELSE z.v

\* if (zoom > 25) zoom = 25; if (zoom < 0.35) zoom = 0.35;
clampZoom(z) ==
    LET capped == IF z.inf \/ z.v > 2500 THEN 2500 ELSE z.v
    IN IF capped < 35 THEN 35 ELSE capped

\* clearTimeout(handle): a handle that is not pending is ignored
clearTimeout(table, handle) == table \ {handle}

\* the handle setTimeout returns
NewTimer(table, held) ==
    CHOOSE t \in TimerIds : /\ t \notin table \cup {held}
                            /\ \A u \in TimerIds \ (table \cup {held}) : t <= u

\* a wheel event, and whether its clearTimeout cancelled a pending timer
WheelOp(cleared) ==
    [name |-> "handleMouseWheel", errors |-> 0, cleared |-> cleared]

\* mutant: the wheel event does not switch the grid cache on
handleMouseWheel_KeepCache(delta) ==
    /\ TimerIds \ (timers \cup {zoomTimeout}) # {}
    /\ zoom' = clampZoom(scaleZoom(zoom, Pow999(delta)))
    /\ zoomTimeout' = NewTimer(timers, zoomTimeout)
    /\ timers' = clearTimeout(timers, zoomTimeout) \cup {zoomTimeout'}
    /\ op' = WheelOp(zoomTimeout \in timers)
    /\ UNCHANGED <<canvasVars, objectCaching, listenerVars, appVars>>

\* mutant: the pending timer is not cleared before the next one is armed
handleMouseWheel_NoClear(delta) ==
    /\ TimerIds \ (timers \cup {zoomTimeout}) # {}
    /\ objectCaching' = TRUE
    /\ zoom' = clampZoom(scaleZoom(zoom, Pow999(delta)))
    /\ zoomTimeout' = NewTimer(timers, zoomTimeout)
    /\ timers' = timers \cup {zoomTimeout'}
    /\ op' = WheelOp(FALSE)
    /\ UNCHANGED <<canvasVars, listenerVars, appVars>>

handleMouseWheel(delta) ==
    /\ TimerIds \ (timers \cup {zoomTimeout}) # {}
    /\ objectCaching' = TRUE
    /\ zoom' = clampZoom(scaleZoom(zoom, Pow999(delta)))   \* zoomToPoint
    \* clearTimeout(this.zoomTimeout); this.zoomTimeout = setTimeout(..., 50)
    /\ zoomTimeout' = NewTimer(timers, zoomTimeout)
    /\ timers' = clearTimeout(timers, zoomTimeout) \cup {zoomTimeout'}
    /\ op' = WheelOp(zoomTimeout \in timers)
    /\ UNCHANGED <<canvasVars, listenerVars, appVars>>

\* mutant: the expired timer redraws without switching the grid cache off
zoomTimeoutCallback_KeepCache(t) ==
    /\ t \in timers
    /\ timers' = timers \ {t}
    /\ renderPending' = FALSE
    /\ op' = Op("zoomTimeoutCallback:renderAll", 0)
    /\ UNCHANGED <<objects, activeObject, selectedMarchers, zoom,
                   objectCaching, zoomTimeout, listenerVars, appVars>>

\* timer t expires and its callback runs; renderAll draws at once and cancels
\* a requested frame.  The handle stays in this.zoomTimeout.
zoomTimeoutCallback(t) ==
    /\ t \in timers
    /\ timers' = timers \ {t}
    /\ IF objectCaching
       THEN /\ objectCaching' = FALSE
            /\ renderPending' = FALSE
            /\ op' = Op("zoomTimeoutCallback:renderAll", 0)
       ELSE /\ UNCHANGED <<objectCaching, renderPending>>
            /\ op' = Op("zoomTimeoutCallback", 0)
    /\ UNCHANGED <<objects, activeObject, selectedMarchers, zoom, zoomTimeout,
                   listenerVars, appVars>>

\* ---- the event listeners of the canvas (fabric.Observable): on appends a
\* handler to those of an event, off without a handler removes all of them
Events == {"mouse:wheel", "object:modified"}
on(table, event, listener) == [table EXCEPT ![event] = Append(@, listener)]
off(table, event) == [table EXCEPT ![event] = <<>>]

\* this.on("mouse:wheel", this.handleMouseWheel) in the constructor
constructorListeners ==
    on([event \in Events |-> <<>>], "mouse:wheel", "handleMouseWheel")

\* the listeners of a cursor mode
CanvasListeners ==
    {[handleObjectModified |-> h] : h \in {"DefaultListeners", "LineListeners"}}

\* mutant: the handlers of every event are removed
clearListenersResult_All(table) == [event \in Events |-> <<>>]

\* this.off("object:modified")
clearListenersResult(table) == off(table, "object:modified")

\* clearListeners && this.clearListeners();
\* this.on("object:modified", listeners.handleObjectModified)
setListenersResult(table, listeners, clear) ==
    on(IF clear THEN clearListenersResult(table) ELSE table,
       "object:modified", listeners.handleObjectModified)

\* a call of setListeners or clearListeners, and how many object:modified
\* handlers were registered before it
ListenerOp(name, listeners, clear, before) ==
    [name |-> name, errors |-> 0, listeners |-> listeners,
     clearListeners |-> clear, before |-> Len(before["object:modified"])]

setListeners(listeners, clear) ==
    /\ Len(setListenersResult(eventListeners, listeners, clear)
               ["object:modified"]) <= MaxListeners
    /\ eventListeners' = setListenersResult(eventListeners, listeners, clear)
    /\ op' = ListenerOp("setListeners", listeners, clear, eventListeners)
    /\ UNCHANGED <<canvasVars, zoomVars, appVars>>

clearListeners ==
    /\ eventListeners' = clearListenersResult(eventListeners)
    /\ op' = ListenerOp("clearListeners", [handleObjectModified |-> "none"], TRUE,
                      eventListeners)
    /\ UNCHANGED <<canvasVars, zoomVars, appVars>>

\* the canvas fires mouse:wheel: every handler registered for it is called
fireMouseWheel(delta) ==
    /\ \E i \in DOMAIN eventListeners["mouse:wheel"] :
          eventListeners["mouse:wheel"][i] = "handleMouseWheel"
    /\ handleMouseWheel(delta)

\* ------------------------------------------------------------------ StepSize
\* A number is NaN, an infinity, or a fraction n/d in lowest terms with d > 0.
\* Positions, counts and pixelsPerStep are integers, and the moves are those
\* whose length is a whole number of pixels, so every finite number of
\* calculateStepSize is a fraction and is computed exactly.
NaN == [kind |-> "NaN"]
Infinity == [kind |-> "Infinity"]
NegInfinity == [kind |-> "-Infinity"]

Abs(i) == IF i < 0 THEN -i ELSE i

RECURSIVE Gcd(_, _)
Gcd(a, b) == IF b = 0 THEN a ELSE Gcd(b, a % b)

Num(n, d) ==
    LET g == Gcd(Abs(n), Abs(d))
        sgn == IF d < 0 THEN -1 ELSE 1
    IN [kind |-> "num", n |-> sgn * (n \div g), d |-> sgn * (d \div g)]

IsNum(a) == a.kind = "num"
Mul(a, b) == Num(a.n * b.n, a.d * b.d)
\* a / b for finite a and finite b other than 0
Div(a, b) == Num(a.n * b.d, a.d * b.n)
Less(a, b) == IsNum(a) /\ IsNum(b) /\ a.n * b.d < b.n * a.d

\* a - b
Minus(a, b) ==
    IF a = NaN \/ b = NaN THEN NaN
    ELSE IF a = Infinity THEN (IF b = Infinity THEN NaN ELSE Infinity)
    ELSE IF a = NegInfinity THEN (IF b = NegInfinity THEN NaN ELSE NegInfinity)
    ELSE IF b = Infinity THEN NegInfinity
    ELSE IF b = NegInfinity THEN Infinity
    ELSE Num(a.n * b.d - b.n * a.d, a.d * b.d)

\* Math.sqrt of a perfect square, by bisection
RECURSIVE SqrtIn(_, _, _)
SqrtIn(n, lo, hi) ==
    IF lo >= hi THEN lo
    ELSE LET mid == (lo + hi + 1) \div 2
         IN IF mid * mid <= n THEN SqrtIn(n, mid, hi) ELSE SqrtIn(n, lo, mid - 1)

\* 46340 is the largest root whose square is a 32 bit integer
Sqrt(n) == SqrtIn(n, 0, IF n < 46340 THEN n ELSE 46340)

\* Math.round: to the nearest integer, a half goes up
Round(a) == (2 * a.n + a.d) \div (2 * a.d)

INCHES_PER_YARD == 36

Point(x, y) == [x |-> x, y |-> y]
\* the positions: a line of points whose distances straddle one step and the
\* largest displayed step size, and a 15-20-25 triangle
Points ==
    {Point(0, y) : y \in {0, 10, 20, 1998, 1999, 2000}} \cup {Point(15, 0)}
DistanceSquared(start, end) ==
    (end.x - start.x) * (end.x - start.x) + (end.y - start.y) * (end.y - start.y)
Moves ==
    {m \in Points \X Points :
        Sqrt(DistanceSquared(m[1], m[2])) * Sqrt(DistanceSquared(m[1], m[2]))
            = DistanceSquared(m[1], m[2])}
Counts == {0, 1, 4, 8}
PixelsPerSteps == {10, 2000}

\* mutant: a page without counts is taken for a hold
calculateStepSize_HoldFirst(startingX, startingY, endingX, endingY, counts, pixelsPerStep) ==
    LET xDistance == Abs(endingX - startingX)
        yDistance == Abs(endingY - startingY)
        distanceInPixels == Sqrt(xDistance * xDistance + yDistance * yDistance)
    IN IF distanceInPixels = 0 THEN Infinity
       ELSE IF counts = 0 THEN NaN
       ELSE Div(Num(INCHES_PER_YARD * 5, 1),
                Div(Mul(Div(Num(distanceInPixels, 1), Num(pixelsPerStep, 1)),
                        Num(225, 10)),
                    Num(counts, 1)))

\* mutant: a move along the y axis only counts as a hold
calculateStepSize_XOnly(startingX, startingY, endingX, endingY, counts, pixelsPerStep) ==
    LET xDistance == Abs(endingX - startingX)
        yDistance == Abs(endingY - startingY)
        distanceInPixels == Sqrt(xDistance * xDistance + yDistance * yDistance)
    IN IF counts = 0 THEN NaN
       ELSE IF xDistance = 0 THEN Infinity
       ELSE Div(Num(INCHES_PER_YARD * 5, 1),
                Div(Mul(Div(Num(distanceInPixels, 1), Num(pixelsPerStep, 1)),
                        Num(225, 10)),
                    Num(counts, 1)))

calculateStepSize(startingX, startingY, endingX, endingY, counts, pixelsPerStep) ==
    LET xDistance == Abs(endingX - startingX)
        yDistance == Abs(endingY - startingY)
        distanceInPixels == Sqrt(xDistance * xDistance + yDistance * yDistance)
        distanceIn8to5Steps == Div(Num(distanceInPixels, 1), Num(pixelsPerStep, 1))
        distanceCoveredInInches == Mul(distanceIn8to5Steps, Num(225, 10))
        distanceInInchesPerStep == Div(distanceCoveredInInches, Num(counts, 1))
    IN IF counts = 0 THEN NaN                       \* !counts
       ELSE IF distanceInPixels = 0 THEN Infinity   \* !distanceInPixels
       ELSE Div(Num(INCHES_PER_YARD * 5, 1), distanceInInchesPerStep)

\* constructor
StepSize(marcher_id, startingX, startingY, endingX, endingY, counts, pixelsPerStep) ==
    [marcher_id |-> marcher_id,
     stepsPerFiveYards |-> calculateStepSize(startingX, startingY, endingX,
                                             endingY, counts, pixelsPerStep)]

\* Math.round(stepsPerFiveYards * 10), the rounded steps in tenths
roundedTenths(stepsPerFiveYards) == Round(Mul(stepsPerFiveYards, Num(10, 1)))

\* `${roundedSteps.toLocaleString()} to 5`: the whole part and, unless it is
\* 0, the one decimal
ToFive(tenths) ==
    [text |-> "to 5", whole |-> tenths \div 10, decimal |-> tenths % 10]

\* mutant: a rounded 64 is already Tiny
displayString_TinyAt64(stepSize) ==
    IF stepSize.stepsPerFiveYards = NaN THEN [text |-> "Undefined"]
    ELSE IF stepSize.stepsPerFiveYards = Infinity THEN [text |-> "Hold"]
    ELSE IF roundedTenths(stepSize.stepsPerFiveYards) >= 640
         THEN [text |-> "Tiny"]
         ELSE ToFive(roundedTenths(stepSize.stepsPerFiveYards))

displayString(stepSize) ==
    IF stepSize.stepsPerFiveYards = NaN THEN [text |-> "Undefined"]
    ELSE IF stepSize.stepsPerFiveYards = Infinity THEN [text |-> "Hold"]
    ELSE IF roundedTenths(stepSize.stepsPerFiveYards) > 640
         THEN [text |-> "Tiny"]
         ELSE ToFive(roundedTenths(stepSize.stepsPerFiveYards))

Undefined == [kind |-> "undefined"]

\* startingPage and page may be undefined; endingPage is a MarcherPage
createStepSizeForMarcher(startingPage, endingPage, page, fieldProperties) ==
    IF startingPage = Undefined \/ page = Undefined THEN Undefined
    ELSE StepSize(endingPage.marcher_id, startingPage.x, startingPage.y,
                  endingPage.x, endingPage.y, page.counts,
                  fieldProperties.pixelsPerStep)

\* b.stepsPerFiveYards - a.stepsPerFiveYards
compare(a, b) == Minus(b.stepsPerFiveYards, a.stepsPerFiveYards)

\* v > 0 for the number a comparator returns
Positive(v) == v = Infinity \/ (IsNum(v) /\ v.n > 0)

\* Array.prototype.sort with StepSize.compare: the sort is stable, and a
\* comparator result of NaN counts as 0.  x goes before the first element
\* that compares greater than x.
RECURSIVE Insert(_, _)
Insert(sorted, x) ==
    IF sorted = <<>> THEN <<x>>
    ELSE IF Positive(compare(Head(sorted), x)) THEN <<x>> \o sorted
    ELSE <<Head(sorted)>> \o Insert(Tail(sorted), x)

RECURSIVE sort(_)
sort(list) ==
    IF list = <<>> THEN <<>>
    ELSE Insert(sort(SubSeq(list, 1, Len(list) - 1)), list[Len(list)])

\* the batch inputs: the marchers in store order, the page with its counts,
\* and at most one MarcherPage per marcher and page
Page(id, counts) == [id |-> id, counts |-> counts]
MarcherPage(marcher_id, page_id, point) ==
    [marcher_id |-> marcher_id, page_id |-> page_id,
     x |-> point.x, y |-> point.y]
BatchMarcherPages(page, starts, ends) ==
    {MarcherPage(m, page.id - 1, starts[m]) :
        m \in {k \in DOMAIN starts : starts[k] # Undefined}}
    \cup {MarcherPage(m, page.id, ends[m]) :
        m \in {k \in DOMAIN ends : ends[k] # Undefined}}

\* pages.find(marcherPage => marcherPage.marcher_id === marcher.id)
find(pages, marcher_id) ==
    IF \E mp \in pages : mp.marcher_id = marcher_id
    THEN CHOOSE mp \in pages : mp.marcher_id = marcher_id
    ELSE Undefined

\* marchers.map(...) from index i on, without the undefined results
RECURSIVE createStepSizesFrom(_, _, _, _, _, _)
createStepSizesFrom(marchers, startingPages, endingPages, page, fieldProperties, i) ==
    IF i > Len(marchers) THEN <<>>
    ELSE LET startingPage == find(startingPages, marchers[i])
             endingPage == find(endingPages, marchers[i])
             stepSize ==
                 IF endingPage = Undefined THEN Undefined
                 ELSE createStepSizeForMarcher(startingPage, endingPage,
                                               page, fieldProperties)
             rest == createStepSizesFrom(marchers, startingPages, endingPages,
                                         page, fieldProperties, i + 1)
         IN IF stepSize = Undefined THEN rest ELSE <<stepSize>> \o rest

createStepSizesForMarchers(marchers, marcherPages, page, fieldProperties) ==
    createStepSizesFrom(
        marchers,
        {mp \in marcherPages : mp.page_id = page.id - 1},
        {mp \in marcherPages : mp.page_id = page.id},
        page, fieldProperties, 1)

\* mutant: the two ends of the sorted list are taken the other way round
getMinAndMaxStepSizesForMarchers_Ascending(marchers, marcherPages, page, fieldProperties) ==
    LET stepSizes == sort(createStepSizesForMarchers(marchers, marcherPages,
                                                     page, fieldProperties))
    IN IF Len(stepSizes) = 0
       THEN [min |-> Undefined, max |-> Undefined]
       ELSE [min |-> stepSizes[Len(stepSizes)], max |-> stepSizes[1]]

getMinAndMaxStepSizesForMarchers(marchers, marcherPages, page, fieldProperties) ==
    LET stepSizes == sort(createStepSizesForMarchers(marchers, marcherPages,
                                                     page, fieldProperties))
    IN IF Len(stepSizes) = 0
       THEN [min |-> Undefined, max |-> Undefined]
       ELSE [min |-> stepSizes[1], max |-> stepSizes[Len(stepSizes)]]

\* ---- the StepSize operations.  They are pure: a call is drawn with its
\* arguments, and the operation puts its result next to them.
FieldProperties(pixelsPerStep) == [pixelsPerStep |-> pixelsPerStep]
Call(name, args) == [name |-> "call", fn |-> name, args |-> args]
Called(name) == op.name = "call" /\ op.fn = name
Return(name, args, result) ==
    [name |-> name, errors |-> 0, args |-> args, result |-> result]

\* new StepSize({...}).displayString()
DisplayCalls ==
    {Call("displayString",
          [start |-> m[1], end |-> m[2], counts |-> counts,
           pixelsPerStep |-> pixelsPerStep]) :
        m \in Moves, counts \in Counts, pixelsPerStep \in PixelsPerSteps}
StepSizeOf(args) ==
    StepSize(1, args.start.x, args.start.y, args.end.x, args.end.y,
             args.counts, args.pixelsPerStep)
StepSize_displayString ==
    /\ Called("displayString")
    /\ op' = Return("displayString", op.args, displayString(StepSizeOf(op.args)))
    /\ UNCHANGED <<canvasVars, zoomVars, listenerVars, appVars>>

\* StepSize.compare(a, b) of the step sizes of two moves that start at (0, 0)
CompareCalls ==
    LET moves == [start : {Point(0, 0)}, end : Points, counts : Counts,
                  pixelsPerStep : PixelsPerSteps]
    IN {Call("compare", [a |-> StepSizeOf(a), b |-> StepSizeOf(b)]) :
           a \in moves, b \in moves}
StepSize_compare ==
    /\ Called("compare")
    /\ op' = Return("compare", op.args, compare(op.args.a, op.args.b))
    /\ UNCHANGED <<canvasVars, zoomVars, listenerVars, appVars>>

BatchCalls ==
    {Call("getMinAndMaxStepSizesForMarchers",
          [marchers |-> [i \in 1..n |-> i],
           marcherPages |-> BatchMarcherPages(Page(2, counts), starts, ends),
           page |-> Page(2, counts),
           fieldProperties |-> FieldProperties(10)]) :
        n \in 0..MaxMarchers, counts \in Counts,
        starts \in [1..MaxMarchers -> {Undefined, Point(0, 0)}],
        ends \in [1..MaxMarchers ->
                     {Undefined, Point(0, 0), Point(0, 10), Point(0, 20)}]}
StepSize_getMinAndMaxStepSizesForMarchers ==
    /\ Called("getMinAndMaxStepSizesForMarchers")
    /\ op' = Return("getMinAndMaxStepSizesForMarchers", op.args,
                    getMinAndMaxStepSizesForMarchers(
                        op.args.marchers, op.args.marcherPages,
                        op.args.page, op.args.fieldProperties))
    /\ UNCHANGED <<canvasVars, zoomVars, listenerVars, appVars>>

\* StepSize.createStepSizesForMarchers of a page of a show.  The show is the
\* pages in their order, with identities that need not be consecutive nor
\* ascending; a marcher has the position Point(0, 10 * id) on some of its
\* pages and on no other page.  The function is handed marchers, marcherPages, page and
\* fieldProperties; show and index say where the page stands in the order.
Shows ==
    {show \in UNION {[1..n -> 1..MaxPages] : n \in 2..MaxPages} :
        \A i, j \in DOMAIN show : show[i] = show[j] => i = j}
CreateCalls ==
    {Call("createStepSizesForMarchers",
          [marchers |-> [i \in 1..n |-> i],
           marcherPages |-> {MarcherPage(m, c[1][i], Point(0, 10 * c[1][i])) :
                                m \in 1..n, i \in c[3]},
           page |-> Page(c[1][c[2]], 8),
           fieldProperties |-> FieldProperties(10),
           show |-> c[1], index |-> c[2]]) :
        n \in 1..2,
        c \in {d \in Shows \X (1..MaxPages) \X SUBSET (1..MaxPages) :
                  d[2] \in DOMAIN d[1] /\ d[3] \subseteq DOMAIN d[1]}}
StepSize_createStepSizesForMarchers ==
    /\ Called("createStepSizesForMarchers")
    /\ op' = Return("createStepSizesForMarchers", op.args,
                    createStepSizesForMarchers(
                        op.args.marchers, op.args.marcherPages,
                        op.args.page, op.args.fieldProperties))
    /\ UNCHANGED <<canvasVars, zoomVars, listenerVars, appVars>>

\* StepSize.createStepSizeForMarcher: startingPage and page are optional
SingleCalls ==
    {Call("createStepSizeForMarcher",
          [startingPage |-> startingPage,
           endingPage |-> MarcherPage(1, 2, end),
           page |-> page,
           fieldProperties |-> FieldProperties(10)]) :
        startingPage \in {Undefined} \cup {MarcherPage(1, 1, start) :
                                              start \in Points},
        end \in Points, page \in {Undefined} \cup {Page(2, counts) :
                                                      counts \in Counts}}
StepSize_createStepSizeForMarcher ==
    /\ Called("createStepSizeForMarcher")
    /\ op' = Return("createStepSizeForMarcher", op.args,
                    createStepSizeForMarcher(
                        op.args.startingPage, op.args.endingPage,
                        op.args.page, op.args.fieldProperties))
    /\ UNCHANGED <<canvasVars, zoomVars, listenerVars, appVars>>

\* ------------------------------------------------- RegisteredActionsHandler
\* KeyboardEvent.key: a character in one of its cases, or a key without case
Letters == {"e", "q", "p", "z", "x", "n", "m", "a"}
Key(char, upper) == [char |-> char, upper |-> upper]
EventKeys ==
    {Key(c, u) : c \in Letters, u \in BOOLEAN} \cup {Key(" ", FALSE), Key("1", FALSE)}
toLowerCase(key) == [key EXCEPT !.upper = FALSE]
toUpperCase(key) == IF key.char \in Letters THEN [key EXCEPT !.upper = TRUE] ELSE key

\* new KeyboardShortcut({ key, control, alt, shift })
KeyboardShortcut(key, control, alt, shift) ==
    [key |-> toLowerCase(key), control |-> control, alt |-> alt, shift |-> shift]

\* KeyboardShortcut.toString(): the modifiers that are set, in the order Ctrl,
\* Alt, Shift, then "Space" or the key in upper case
\* mutant: the shift key is left out of the string
KeyboardShortcut_toString_NoShift(shortcut) ==
    [ctrl |-> shortcut.control, alt |-> shortcut.alt, shift |-> FALSE,
     keyStr |-> IF shortcut.key = Key(" ", FALSE) THEN Key("Space", FALSE)
                ELSE toUpperCase(shortcut.key)]

KeyboardShortcut_toString(shortcut) ==
    [ctrl |-> shortcut.control, alt |-> shortcut.alt, shift |-> shortcut.shift,
     keyStr |-> IF shortcut.key = Key(" ", FALSE) THEN Key("Space", FALSE)
                ELSE toUpperCase(shortcut.key)]

\* Object.values(RegisteredActionsEnum), in the order of declaration
RegisteredActionsEnum ==
    <<"nextPage", "lastPage", "previousPage", "firstPage", "playPause",
      "setAllMarchersToPreviousPage", "setSelectedMarcherToPreviousPage",
      "snapToNearestWhole", "lockX", "lockY",
      "toggleNextPagePaths", "togglePreviousPagePaths">>
Actions == {RegisteredActionsEnum[i] : i \in DOMAIN RegisteredActionsEnum}

Chord(char, control, shift) ==
    [keyboardShortcut |-> KeyboardShortcut(Key(char, FALSE), control, FALSE, shift)]
\* mutant: lockY declares the chord of lockX
RegisteredActionsObjects_SharedChord ==
    [action \in Actions |->
        CASE action = "nextPage" -> Chord("e", FALSE, FALSE)
          [] action = "lastPage" -> Chord("e", FALSE, TRUE)
          [] action = "previousPage" -> Chord("q", FALSE, FALSE)
          [] action = "firstPage" -> Chord("q", FALSE, TRUE)
          [] action = "playPause" -> Chord(" ", FALSE, FALSE)
          [] action = "setAllMarchersToPreviousPage" -> Chord("p", TRUE, TRUE)
          [] action = "setSelectedMarcherToPreviousPage" -> Chord("p", FALSE, TRUE)
          [] action = "snapToNearestWhole" -> Chord("1", FALSE, FALSE)
          [] action = "lockX" -> Chord("z", FALSE, FALSE)
          [] action = "lockY" -> Chord("z", FALSE, FALSE)
          [] action = "togglePreviousPagePaths" -> Chord("n", FALSE, FALSE)
          [] action = "toggleNextPagePaths" -> Chord("m", FALSE, FALSE)]

RegisteredActionsObjects ==
    [action \in Actions |->
        CASE action = "nextPage" -> Chord("e", FALSE, FALSE)
          [] action = "lastPage" -> Chord("e", FALSE, TRUE)
          [] action = "previousPage" -> Chord("q", FALSE, FALSE)
          [] action = "firstPage" -> Chord("q", FALSE, TRUE)
          [] action = "playPause" -> Chord(" ", FALSE, FALSE)
          [] action = "setAllMarchersToPreviousPage" -> Chord("p", TRUE, TRUE)
          [] action = "setSelectedMarcherToPreviousPage" -> Chord("p", FALSE, TRUE)
          [] action = "snapToNearestWhole" -> Chord("1", FALSE, FALSE)
          [] action = "lockX" -> Chord("z", FALSE, FALSE)
          [] action = "lockY" -> Chord("x", FALSE, FALSE)
          [] action = "togglePreviousPagePaths" -> Chord("n", FALSE, FALSE)
          [] action = "toggleNextPagePaths" -> Chord("m", FALSE, FALSE)]

\* Object.fromEntries(...) of the first i actions: a later entry with the same
\* key string overwrites an earlier one
RECURSIVE fromEntries(_)
fromEntries(i) ==
    IF i = 0 THEN [keyString \in {} |-> ""]
    ELSE LET action == RegisteredActionsEnum[i]
             keyString ==
                 KeyboardShortcut_toString(
                     RegisteredActionsObjects[action].keyboardShortcut)
         IN (keyString :> action) @@ fromEntries(i - 1)
keyboardShortcutDictionary == fromEntries(Len(RegisteredActionsEnum))

\* ---- the pages, in order, and the positions
pages == [i \in 1..MaxPages |-> Page(i, 8)]
Pages == {pages[i] : i \in DOMAIN pages}
\* marcherPage.page_id === page?.id
OnPageOf(marcherPage, page) ==
    page # Undefined /\ marcherPage.page_id = page.id
IndexOf(page) == CHOOSE i \in DOMAIN pages : pages[i] = page
getNextPage(page) ==
    IF IndexOf(page) < Len(pages) THEN pages[IndexOf(page) + 1] ELSE Undefined
getPreviousPage(page) ==
    IF IndexOf(page) > 1 THEN pages[IndexOf(page) - 1] ELSE Undefined
getFirstPage == IF Len(pages) > 0 THEN pages[1] ELSE Undefined
getLastPage == IF Len(pages) > 0 THEN pages[Len(pages)] ELSE Undefined

\* the elements of a set of marcher ids or of positions, in store order
RECURSIVE InOrder(_)
InOrder(ids) ==
    IF ids = {} THEN <<>>
    ELSE LET least == CHOOSE i \in ids : \A j \in ids : i <= j
         IN <<least>> \o InOrder(ids \ {least})

\* selectedMarchers.forEach(marcher => push(find(...)!)): one element per
\* selected marcher, undefined where the marcher has no position on the page
RECURSIVE getSelectedMarcherPagesFrom(_, _)
getSelectedMarcherPagesFrom(selectedPageMarcherPages, ids) ==
    IF ids = <<>> THEN <<>>
    ELSE <<find(selectedPageMarcherPages, Head(ids))>>
         \o getSelectedMarcherPagesFrom(selectedPageMarcherPages, Tail(ids))
\* mutant: only the first position of the page is kept
Filter_First(positions) ==
    LET all == getSelectedMarcherPagesFrom(
                   positions, InOrder({mp.marcher_id : mp \in positions}))
    IN IF all = <<>> THEN <<>> ELSE <<Head(all)>>

Filter(positions) ==
    getSelectedMarcherPagesFrom(positions,
                                InOrder({mp.marcher_id : mp \in positions}))
getSelectedMarcherPages(h) ==
    getSelectedMarcherPagesFrom(
        {mp \in h.marcherPages : OnPageOf(mp, h.selectedPage)},
        InOrder(h.selectedMarchers))

\* getRoundCoordinates({marcherPages, fieldProperites, denominator: 1, xAxis,
\* yAxis}): each position with the coordinates of the given axes rounded to
\* the nearest whole step, a half going up
RECURSIVE getRoundCoordinates(_, _, _, _)
getRoundCoordinates(list, fieldProperties, xAxis, yAxis) ==
    IF list = <<>> THEN <<>>
    ELSE LET mp == Head(list)
             step == fieldProperties.pixelsPerStep
         IN <<[mp EXCEPT
                  !.x = IF xAxis THEN step * Round(Num(@, step)) ELSE @,
                  !.y = IF yAxis THEN step * Round(Num(@, step)) ELSE @]>>
            \o getRoundCoordinates(Tail(list), fieldProperties, xAxis, yAxis)

\* {...marcherPage, page_id: selectedPage.id} for each element
RECURSIVE OnPage(_, _)
OnPage(list, page) ==
    IF list = <<>> THEN <<>>
    ELSE <<[Head(list) EXCEPT !.page_id = page]>> \o OnPage(Tail(list), page)

\* ---- triggerAction.  Its outcome: the setter it called and with what, the
\* patch lists it handed to MarcherPage.updateMarcherPages, its console.error
\* reports, and whether it threw.
Outcome(setter, value, submitted, errors, threw) ==
    [setter |-> setter, value |-> value, submitted |-> submitted,
     errors |-> errors, threw |-> threw]
Nothing == Outcome("none", Undefined, <<>>, 0, FALSE)
Reported == Outcome("none", Undefined, <<>>, 1, FALSE)
Thrown == Outcome("none", Undefined, <<>>, 0, TRUE)
\* mutant: the page is selected whether or not the lookup returned one
SetSelectedPage_Always(page) ==
    Outcome("setSelectedPage", page, <<>>, 0, FALSE)

\* mutant: a page change is handed to the position store as well
SetSelectedPage_Submit(page) ==
    IF page = Undefined THEN Nothing
    ELSE Outcome("setSelectedPage", page, <<<<>>>>, 0, FALSE)

SetSelectedPage(page) ==
    IF page = Undefined THEN Nothing
    ELSE Outcome("setSelectedPage", page, <<>>, 0, FALSE)
SetUiSettings(uiSettings) == Outcome("setUiSettings", uiSettings, <<>>, 0, FALSE)
UpdateMarcherPages(changes) == Outcome("none", Undefined, <<changes>>, 0, FALSE)

\* switch (action) { ... }
switchAction(h, action) ==
    CASE action = "nextPage" -> SetSelectedPage(getNextPage(h.selectedPage))
      [] action = "lastPage" -> SetSelectedPage(getLastPage)
      [] action = "previousPage" ->
            SetSelectedPage(getPreviousPage(h.selectedPage))
      [] action = "firstPage" -> SetSelectedPage(getFirstPage)
      [] action = "playPause" ->
            Outcome("setIsPlaying", ~h.isPlaying, <<>>, 0, FALSE)
      [] action = "setAllMarchersToPreviousPage" ->
            LET previousPage == getPreviousPage(h.selectedPage)
                previousPageMarcherPages ==
                    Filter({mp \in h.marcherPages : OnPageOf(mp, previousPage)})
            IN UpdateMarcherPages(
                   OnPage(previousPageMarcherPages, h.selectedPage.id))
      [] action = "setSelectedMarcherToPreviousPage" ->
            LET previousPage == getPreviousPage(h.selectedPage)
                onPrevious == {mp \in h.marcherPages : OnPageOf(mp, previousPage)}
                first == InOrder(h.selectedMarchers)
            IN \* selectedMarchers[0].id is read for an element on that page
               IF onPrevious # {} /\ first = <<>> THEN Thrown
               ELSE IF first # <<>> /\ find(onPrevious, first[1]) # Undefined
               THEN UpdateMarcherPages(
                        OnPage(<<find(onPrevious, first[1])>>,
                               h.selectedPage.id))
               ELSE Nothing
      [] action = "snapToNearestWhole" ->
            LET list == getSelectedMarcherPages(h)
            IN IF \/ \E i \in DOMAIN list : list[i] = Undefined
                  \/ h.fieldProperties = Undefined
               THEN Thrown
               ELSE UpdateMarcherPages(
                        getRoundCoordinates(list, h.fieldProperties,
                                            ~h.uiSettings.lockX,
                                            ~h.uiSettings.lockY))
      [] action = "lockX" ->
            SetUiSettings([h.uiSettings EXCEPT !.lockX = ~h.uiSettings.lockX])
      [] action = "lockY" ->
            SetUiSettings([h.uiSettings EXCEPT !.lockY = ~h.uiSettings.lockY])
      [] action = "toggleNextPagePaths" ->
            SetUiSettings([h.uiSettings EXCEPT
                              !.nextPaths = ~h.uiSettings.nextPaths])
      [] action = "togglePreviousPagePaths" ->
            SetUiSettings([h.uiSettings EXCEPT
                              !.previousPaths = ~h.uiSettings.previousPaths])
      [] OTHER -> Reported

\* mutant: the field properties are not asked for
triggerAction_NoFieldProperties(h, action) ==
    IF h.selectedPage = Undefined THEN Reported
    ELSE switchAction(h, action)

triggerAction(h, action) ==
    IF h.selectedPage = Undefined THEN Reported         \* 'No selected page'
    ELSE IF h.fieldProperties = Undefined THEN Reported \* 'No field properties'
    ELSE switchAction(h, action)

\* the stores after the setter and the submissions of an outcome
Applied(a, outcome) ==
    [a EXCEPT
        !.selectedPage = IF outcome.setter = "setSelectedPage"
                         THEN outcome.value ELSE @,
        !.isPlaying = IF outcome.setter = "setIsPlaying" THEN outcome.value ELSE @,
        !.uiSettings = IF outcome.setter = "setUiSettings" THEN outcome.value ELSE @,
        !.updates = @ \o outcome.submitted]

\* ---- handleKeyDown
\* document.activeElement: an editable control, another element, or none
FocusKinds ==
    {"input", "textarea", "select", "contenteditable", "canvas", "button", "none"}
\* document.activeElement?.matches("input, textarea, select, [contenteditable]")
matches(focus) == focus \in {"input", "textarea", "select", "contenteditable"}
KeyboardEvents ==
    [key : EventKeys, ctrlKey : BOOLEAN, metaKey : BOOLEAN, altKey : BOOLEAN,
     shiftKey : BOOLEAN, focus : FocusKinds]

\* what handleKeyDown does with an event: the actions it hands to
\* triggerAction, and whether it calls e.preventDefault()
Dispatch(triggered, defaultPrevented) ==
    [triggered |-> triggered, defaultPrevented |-> defaultPrevented]

\* mutant: the focused element is not looked at
handleKeyDownResult_NoFocusCheck(e) ==
    LET keyString ==
            KeyboardShortcut_toString(
                KeyboardShortcut(e.key, e.ctrlKey \/ e.metaKey, e.altKey, e.shiftKey))
    IN IF keyString \in DOMAIN keyboardShortcutDictionary
       THEN Dispatch(<<keyboardShortcutDictionary[keyString]>>, TRUE)
       ELSE Dispatch(<<>>, FALSE)

handleKeyDownResult(e) ==
    LET keyboardAction ==
            KeyboardShortcut(e.key, e.ctrlKey \/ e.metaKey, e.altKey, e.shiftKey)
        keyString == KeyboardShortcut_toString(keyboardAction)
    IN IF ~matches(e.focus) /\ keyString \in DOMAIN keyboardShortcutDictionary
       THEN Dispatch(<<keyboardShortcutDictionary[keyString]>>, TRUE)
       ELSE Dispatch(<<>>, FALSE)

\* what a rendering of the component hands to its callbacks
Captured(a, selected) ==
    [selectedPage |-> a.selectedPage, isPlaying |-> a.isPlaying,
     uiSettings |-> a.uiSettings, fieldProperties |-> a.fieldProperties,
     marcherPages |-> a.marcherPages, selectedMarchers |-> selected,
     dispatches |-> 0]

\* the operation of the handler: its name, the event or the action clicked,
\* its reports, the actions it triggered, whether the default was prevented,
\* whether it threw
HandlerOp(name, event, dispatch, outcome) ==
    [name |-> name, event |-> event, errors |-> outcome.errors,
     triggered |-> dispatch.triggered,
     defaultPrevented |-> dispatch.defaultPrevented /\ ~outcome.threw,
     threw |-> outcome.threw]

Handle(name, event, dispatch) ==
    LET outcome == IF dispatch.triggered = <<>> THEN Nothing
                   ELSE triggerAction(handler, dispatch.triggered[1])
    IN /\ handler.dispatches < MaxDispatches
       /\ Len(app.updates) + Len(outcome.submitted) <= MaxUpdates
       /\ app' = Applied(app, outcome)
       /\ handler' = [handler EXCEPT !.dispatches = @ + 1]
       /\ op' = HandlerOp(name, event, dispatch, outcome)
       /\ UNCHANGED <<canvasVars, zoomVars, listenerVars, marcherPageList>>

\* a key-down event reaches the listener of the last rendering
handleKeyDown(e) == Handle("handleKeyDown", e, handleKeyDownResult(e))

\* the listener is called with the event of a call
keydown == Called("handleKeyDown") /\ handleKeyDown(op.args)

\* buttonRef.current.onclick = () => triggerAction(registeredAction)
onclick(action) == Handle("onclick", action, Dispatch(<<action>>, FALSE))

\* the component renders again: its callbacks capture the current values and
\* the key-down listener is registered anew
render ==
    /\ handler' = Captured(app, selectedMarchers)
    /\ handler' # handler
    /\ op' = Op("render", 0)
    /\ UNCHANGED <<canvasVars, zoomVars, listenerVars, app, marcherPageList>>

\* MarcherPage.updateMarcherPages(changes): each change sets the coordinates
\* of the position of its marcher on its page, the only one of that pair
RECURSIVE updateMarcherPages(_, _)
updateMarcherPages(marcherPages, changes) ==
    IF changes = <<>> THEN marcherPages
    ELSE LET change == Head(changes)
             others == {mp \in marcherPages :
                           \/ mp.marcher_id # change.marcher_id
                           \/ mp.page_id # change.page_id}
         IN updateMarcherPages(
                others \cup {MarcherPage(change.marcher_id, change.page_id,
                                         Point(change.x, change.y))},
                Tail(changes))

\* the patch list submitted first is applied by the store, and the positions
\* are fetched again
applyUpdates ==
    /\ app.updates # <<>>
    /\ app' = [app EXCEPT
                  !.marcherPages = updateMarcherPages(@, Head(app.updates)),
                  !.updates = Tail(@)]
    /\ op' = Op("applyUpdates", 0)
    /\ UNCHANGED <<canvasVars, zoomVars, listenerVars, handler, marcherPageList>>

\* the updates submitted are taken up by the store; the positions are left
\* as they are where only the dispatches are looked at
takeUpdates ==
    /\ app.updates # <<>>
    /\ app' = [app EXCEPT !.updates = <<>>]
    /\ op' = Op("updateMarcherPages", 0)
    /\ UNCHANGED <<canvasVars, zoomVars, listenerVars, handler, marcherPageList>>

\* the stores of a show of MaxPages pages: marcher 1 has a position on every
\* page, marcher 2 on every page but the last
ShowMarcherPages ==
    {MarcherPage(1, p, Point(4 * p, 16 - p)) : p \in 1..MaxPages}
    \cup {MarcherPage(2, p, Point(10 * p, 5 * p)) : p \in 1..(MaxPages - 1)}
App(selectedPage, fieldProperties) ==
    [selectedPage |-> selectedPage, isPlaying |-> FALSE,
     uiSettings |-> [lockX |-> FALSE, lockY |-> FALSE, nextPaths |-> FALSE,
                     previousPaths |-> FALSE],
     fieldProperties |-> fieldProperties,
     marcherPages |-> ShowMarcherPages, updates |-> <<>>]

\* ------------------------------------------------------------ MarcherPageList
\* id_for_html of a page or of a marcher
PageId(id) == [kind |-> "page", id |-> id]
MarcherId(id) == [kind |-> "marcher", id |-> id]
Marcher(id) == [id |-> id]
Marchers == {Marcher(id) : id \in MarcherIds}
\* the fetches that can be made
FetchIds ==
    {PageId(p.id) : p \in Pages} \cup {MarcherId(m.id) : m \in Marchers}

\* getMarcherPages(id_for_html): the positions of the page, or of the marcher
getMarcherPages(id) ==
    IF id.kind = "page"
    THEN {mp \in ShowMarcherPages : mp.page_id = id.id}
    ELSE {mp \in ShowMarcherPages : mp.marcher_id = id.id}

\* selectedPage?.id_for_html || selectedMarcher!.id_for_html
idToUse(selectedPage, selectedMarcher) ==
    IF selectedPage # Undefined THEN PageId(selectedPage.id)
    ELSE MarcherId(selectedMarcher.id)

\* the effect of lines 21-40, run with the selection of a rendering: the list
\* is emptied, a fetch is started if a page or a marcher is selected, and the
\* loading flag, set before the fetch, is cleared after it is started
useEffectResult(l, selectedPage, selectedMarcher) ==
    [l EXCEPT
        !.selectedPage = selectedPage,
        !.selectedMarcher = selectedMarcher,
        !.marcherPages = {},
        !.isLoading = FALSE,
        !.pending = IF selectedPage # Undefined \/ selectedMarcher # Undefined
                    THEN @ \cup {idToUse(selectedPage, selectedMarcher)}
                    ELSE @]

\* the component after its first rendering, with nothing selected
MarcherPageList ==
    useEffectResult([selectedPage |-> Undefined, selectedMarcher |-> Undefined,
                     marcherPages |-> {}, isLoading |-> TRUE, pending |-> {}],
                    Undefined, Undefined)

\* the selected page changes and the component renders again
selectPage(page) ==
    /\ page # marcherPageList.selectedPage
    /\ marcherPageList' =
           useEffectResult(marcherPageList, page,
                           marcherPageList.selectedMarcher)
    /\ op' = Op("selectPage", 0)
    /\ UNCHANGED <<canvasVars, zoomVars, listenerVars, app, handler>>

\* the selected marcher changes and the component renders again
selectMarcher(marcher) ==
    /\ marcher # marcherPageList.selectedMarcher
    /\ marcherPageList' =
           useEffectResult(marcherPageList, marcherPageList.selectedPage,
                           marcher)
    /\ op' = Op("selectMarcher", 0)
    /\ UNCHANGED <<canvasVars, zoomVars, listenerVars, app, handler>>

\* .then(marcherPagesResponse => setMarcherPages(marcherPagesResponse))
\* .finally(() => setIsLoading(false)) of a fetch that was started
resolve(id) ==
    /\ id \in marcherPageList.pending
    /\ marcherPageList' =
           [marcherPageList EXCEPT !.marcherPages = getMarcherPages(id),
                                   !.isLoading = FALSE,
                                   !.pending = @ \ {id}]
    /\ op' = Op("resolve", 0)
    /\ UNCHANGED <<canvasVars, zoomVars, listenerVars, app, handler>>

\* ---------------------------------------------------------------- the system
Init ==
    /\ objects = <<staticGridRef>>
    /\ activeObject = None
    /\ selectedMarchers = {}
    /\ renderPending = FALSE
    /\ zoom = 100
    /\ objectCaching = TRUE
    /\ zoomTimeout = 0
    /\ timers = {}
    /\ app = App(Undefined, Undefined)
    /\ handler = Captured(app, selectedMarchers)
    /\ marcherPageList = MarcherPageList
    /\ eventListeners = constructorListeners
    /\ op = Op("constructor", 0)

\* SceneSync: the render calls and the sweeps.  Markers are rendered from any
\* list of positions; ghosts are drawn from the positions of another page with
\* marcher 2 missing from the store, and pathways lead from the positions of
\* another page to those marcher 1 has on the selected page.
Next ==
    \/ \E mps \in MarcherPageLists, ms \in Stores : renderMarchers(mps, ms)
    \/ \E mps \in OtherPageLists : renderStaticMarchers(mps, {1})
    \/ \E s \in StartPageLists, e \in OtherPageLists : renderPathways(s, e)
    \/ removeStaticCanvasMarchers
    \/ removePathways

Spec == Init /\ [][Next]_vars

\* Pathways on their own: the ghosts of a page and the pathways between any
\* start-page and end-page lists are drawn on a canvas, and swept from it.
NextPaths ==
    \/ \E mps \in OtherPageLists : renderStaticMarchers(mps, {1})
    \/ \E s \in SelectedPageLists, e \in OtherPageLists : renderPathways(s, e)
    \/ removeStaticCanvasMarchers
    \/ removePathways

SpecPaths == Init /\ [][NextPaths]_vars

\* Selection: the markers of the selected page and one ghost are put on the
\* canvas, the pointer selects, and the selection handler runs with any set of
\* objects of the canvas.
SelectUiSettings == {u \in UiSettingsSet : ~(u.lockX /\ u.lockY)}
SelectionInputs ==
    (SUBSET (2..MaxObjects)) \X SelectUiSettings \X Stores

NextSelect ==
    \/ \E mp \in SelectedPagePositions : renderMarchers(<<mp>>, MarcherIds)
    \/ \E mp \in OtherPagePositions : previewPage(<<mp>>, {1})
    \/ \E ranks \in SUBSET (2..MaxObjects) : pointerSelect(ranks)
    \/ \E in \in SelectionInputs : setSelectedCanvasMarchers(in[1], in[2], in[3])
    \/ renderFrame

SpecSelect == Init /\ [][NextSelect]_vars

\* Viewport: wheel events and the zoom timer.
NextZoom ==
    \/ \E delta \in WheelDeltas : handleMouseWheel(delta)
    \/ \E t \in TimerIds : zoomTimeoutCallback(t)

SpecZoom == Init /\ [][NextZoom]_vars

\* Listeners: the listeners of the cursor modes are set and cleared, and the
\* wheel is turned as far as it goes, in or out.
FarDeltas == {delta \in WheelDeltas : delta.far /\ delta.notches \in {-1, 1}}

NextListeners ==
    \/ \E listeners \in CanvasListeners, clear \in BOOLEAN :
          setListeners(listeners, clear)
    \/ clearListeners
    \/ \E delta \in FarDeltas : fireMouseWheel(delta)
    \/ \E t \in TimerIds : zoomTimeoutCallback(t)

SpecListeners == Init /\ [][NextListeners]_vars

\* a pending timer expires 50 ms after it was armed unless it is cleared first
SpecZoomFair ==
    SpecZoom /\ \A t \in TimerIds : WF_vars(zoomTimeoutCallback(t))

\* GeometryAnalyzer: the step sizes of moves, their display, their order and
\* the batch form, each applied to the arguments of a call.
InitStep ==
    /\ objects = <<staticGridRef>>
    /\ activeObject = None
    /\ selectedMarchers = {}
    /\ renderPending = FALSE
    /\ zoom = 100
    /\ objectCaching = TRUE
    /\ zoomTimeout = 0
    /\ timers = {}
    /\ app = App(Undefined, Undefined)
    /\ handler = Captured(app, selectedMarchers)
    /\ marcherPageList = MarcherPageList
    /\ eventListeners = constructorListeners
    /\ op \in DisplayCalls \cup CompareCalls \cup BatchCalls \cup CreateCalls
             \cup SingleCalls

NextStep ==
    \/ StepSize_displayString
    \/ StepSize_compare
    \/ StepSize_getMinAndMaxStepSizesForMarchers
    \/ StepSize_createStepSizesForMarchers
    \/ StepSize_createStepSizeForMarcher

SpecStep == InitStep /\ [][NextStep]_vars

\* The position list: pages and marchers are selected and deselected, and the
\* fetches started resolve in any order.
NextList ==
    \/ \E page \in Pages \cup {Undefined} : selectPage(page)
    \/ \E marcher \in Marchers \cup {Undefined} : selectMarcher(marcher)
    \/ \E id \in FetchIds : resolve(id)

SpecList == Init /\ [][NextList]_vars

\* ActionDispatcher: the show is opened with or without a selected page and
\* with or without field properties, and with any selection of marchers; keys
\* are pressed and buttons clicked between the renderings of the handler.
InitActions ==
    /\ objects = <<staticGridRef>>
    /\ activeObject = None
    /\ selectedMarchers \in {{}, MarcherIds}
    /\ renderPending = FALSE
    /\ zoom = 100
    /\ objectCaching = TRUE
    /\ zoomTimeout = 0
    /\ timers = {}
    /\ \E selectedPage \in Pages \cup {Undefined},
          fieldProperties \in {Undefined, FieldProperties(10)} :
          app = App(selectedPage, fieldProperties)
    /\ handler = Captured(app, selectedMarchers)
    /\ marcherPageList = MarcherPageList
    /\ eventListeners = constructorListeners
    /\ op = Op("constructor", 0)

\* the events pressed: chords of actions that navigate, submit positions and
\* toggle a setting, a chord bound to no action, and a chord pressed with the
\* focus in a text input
Pressed(char, upper, ctrlKey, shiftKey, focus) ==
    [key |-> Key(char, upper), ctrlKey |-> ctrlKey, metaKey |-> FALSE,
     altKey |-> FALSE, shiftKey |-> shiftKey, focus |-> focus]
PressedEvents ==
    {Pressed("e", FALSE, FALSE, FALSE, "canvas"),
     Pressed("p", TRUE, TRUE, TRUE, "canvas"),
     Pressed("p", TRUE, FALSE, TRUE, "canvas"),
     Pressed("z", FALSE, FALSE, FALSE, "canvas"),
     Pressed(" ", FALSE, FALSE, FALSE, "canvas"),
     Pressed("a", FALSE, FALSE, FALSE, "canvas"),
     Pressed("e", FALSE, FALSE, FALSE, "input")}
\* the buttons clicked
ClickedActions == {"previousPage", "snapToNearestWhole"}

NextActions ==
    \/ \E e \in PressedEvents : handleKeyDown(e)
    \/ \E action \in ClickedActions : onclick(action)
    \/ render
    \/ takeUpdates

SpecActions == InitActions /\ [][NextActions]_vars

\* Batch copy and snap: a page is selected and both marchers are, the field
\* properties are loaded; positions are copied from the previous page and
\* snapped, pages are turned, and the store applies the patch lists.
InitCopy ==
    /\ objects = <<staticGridRef>>
    /\ activeObject = None
    /\ selectedMarchers = MarcherIds
    /\ renderPending = FALSE
    /\ zoom = 100
    /\ objectCaching = TRUE
    /\ zoomTimeout = 0
    /\ timers = {}
    /\ \E selectedPage \in Pages :
          app = App(selectedPage, FieldProperties(10))
    /\ handler = Captured(app, selectedMarchers)
    /\ marcherPageList = MarcherPageList
    /\ eventListeners = constructorListeners
    /\ op = Op("constructor", 0)

CopyActions ==
    {"setAllMarchersToPreviousPage", "setSelectedMarcherToPreviousPage",
     "snapToNearestWhole", "nextPage"}

NextCopy ==
    \/ \E action \in CopyActions : onclick(action)
    \/ render
    \/ applyUpdates

SpecCopy == InitCopy /\ [][NextCopy]_vars

\* Toggles: with a page selected and the field properties loaded, the buttons
\* of the four toggles and of play and pause are clicked between the
\* renderings of the handler.
ToggleActions ==
    {"lockX", "lockY", "togglePreviousPagePaths", "toggleNextPagePaths",
     "playPause"}

NextToggles ==
    \/ \E action \in ToggleActions : onclick(action)
    \/ render

SpecToggles == InitCopy /\ [][NextToggles]_vars

\* The key-down listener on its own: any key-down event, with any modifiers and
\* any focus, reaches the listener of a show that has a selected page and
\* field properties or lacks them, with marcher 1 selected or none.
InitKeys ==
    /\ objects = <<staticGridRef>>
    /\ activeObject = None
    /\ selectedMarchers \in {{}, {1}}
    /\ renderPending = FALSE
    /\ zoom = 100
    /\ objectCaching = TRUE
    /\ zoomTimeout = 0
    /\ timers = {}
    /\ \E selectedPage \in {Undefined, pages[2]},
          fieldProperties \in {Undefined, FieldProperties(10)} :
          app = App(selectedPage, fieldProperties)
    /\ handler = Captured(app, selectedMarchers)
    /\ marcherPageList = MarcherPageList
    /\ eventListeners = constructorListeners
    /\ op \in {Call("handleKeyDown", e) : e \in KeyboardEvents}

NextKeys == keydown \/ render \/ takeUpdates

SpecKeys == InitKeys /\ [][NextKeys]_vars

\* ------------------------------------------------------------------ claims
\* the canvas holds a CanvasMarcher bound to the marcher at the position
HasMarkerAt(objs, marcherPage) ==
    \E k \in 1..Len(objs) :
        /\ objs[k].kind = "CanvasMarcher"
        /\ objs[k].marcher_id = marcherPage.marcher_id
        /\ objs[k].coords = <<marcherPage.x, marcherPage.y>>

\* the position is the last one of its marcher in the list
LastOfMarcher(mps, i) ==
    \A j \in (i + 1)..Len(mps) : mps[j].marcher_id # mps[i].marcher_id

\* C1 as stated: after renderMarchers(positions, marchers), every position of
\* the list whose marcher is in the marcher list has a CanvasMarcher bound to
\* that marcher at the position's x and y.
C1_AsStated ==
    [][\A mps \in MarcherPageLists, ms \in MarcherLists :
          renderMarchers(mps, ms) =>
              \A i \in 1..Len(mps) :
                  mps[i].marcher_id \in ms => HasMarkerAt(objects', mps[i])]_vars

\* C1 amended: after renderMarchers(positions, marchers), every position that
\* is the last one of its marcher in the list and whose marcher is in the
\* marcher list has a CanvasMarcher bound to that marcher at its x and y,
\* whether the marker was created by this call or existed before.  Stated of
\* every call that can be made in the current state.
C1_MarkerAtLastPosition ==
    \A mps \in MarcherPageLists, ms \in MarcherLists :
        LET after == renderMarchersResult(objects, mps, ms).objects
        IN \A i \in 1..Len(mps) :
               (mps[i].marcher_id \in ms /\ LastOfMarcher(mps, i))
                   => HasMarkerAt(after, mps[i])

\* a call has left markers of two marchers on the canvas, on different points
C1_Witness ==
    /\ op.name = "renderMarchers"
    /\ \E k, l \in 1..Len(objects) :
          /\ objects[k].kind = "CanvasMarcher" /\ objects[l].kind = "CanvasMarcher"
          /\ objects[k].marcher_id # objects[l].marcher_id
          /\ objects[k].coords = <<0, 0>> /\ objects[l].coords = <<1, 2>>

\* C2: in every reachable state no two CanvasMarchers on the canvas are bound
\* to the same marcher.
C2_OneMarkerPerMarcher ==
    \A k, l \in 1..Len(objects) :
        (/\ objects[k].kind = "CanvasMarcher" /\ objects[l].kind = "CanvasMarcher"
         /\ objects[k].marcher_id = objects[l].marcher_id) => k = l

\* C3: a second renderMarchers call with the arguments of the first leaves the
\* CanvasMarchers as the first call left them: same count, same objects, same
\* coordinates.
C3_SyncIdempotent ==
    [][\A mps \in MarcherPageLists, ms \in MarcherLists :
          renderMarchers(mps, ms) =>
              getCanvasMarchers(renderMarchersResult(objects', mps, ms).objects)
                  = getCanvasMarchers(objects')]_vars

OfOtherKinds(objs, kind) == SelectSeq(objs, LAMBDA o : o.kind # kind)

\* every object of the list before is still there, bound as it was, and only
\* CanvasMarchers differ
Kept(before, after) ==
    /\ Len(after) >= Len(before)
    /\ \A i \in 1..Len(before) :
          /\ after[i].kind = before[i].kind
          /\ after[i].marcher_id = before[i].marcher_id
          /\ before[i].kind # "CanvasMarcher" => after[i] = before[i]
    /\ OfOtherKinds(after, "CanvasMarcher") = OfOtherKinds(before, "CanvasMarcher")

\* C4: a renderMarchers call removes no canvas object: every CanvasMarcher that
\* was on the canvas is still there, also the ones of marchers without a
\* position in the list, and the StaticCanvasMarchers, the Pathways and the
\* grid are as they were.
C4_RenderRemovesNothing ==
    [][op'.name = "renderMarchers" => Kept(objects, objects')]_vars

\* a call has run on a canvas that holds a marker, a ghost and a pathway
C4_Witness ==
    /\ op.name = "renderMarchers"
    /\ getCanvasMarchers(objects) # <<>>
    /\ getStaticCanvasMarchers(objects) # <<>>
    /\ getPathways(objects) # <<>>

\* the positions of the list whose marcher is in the marcher list
Known(mps, ms) == SelectSeq(mps, LAMBDA mp : mp.marcher_id \in ms)

\* C5: a position whose marcher is not in the marcher list is reported and
\* skipped, wherever it sits in the list: renderMarchers and
\* renderStaticMarchers report once per such position and leave the canvas as
\* the same call without those positions leaves it.
C5_LookupMissSkipped ==
    [][\A mps \in MarcherPageLists, ms \in MarcherLists :
          /\ renderMarchers(mps, ms) =>
                /\ op'.errors = Len(mps) - Len(Known(mps, ms))
                /\ objects' = renderMarchersResult(objects, Known(mps, ms), ms).objects
          /\ renderStaticMarchers(mps, ms) =>
                /\ op'.errors = Len(mps) - Len(Known(mps, ms))
                /\ objects' = renderStaticMarchersResult(objects, Known(mps, ms),
                                                         ms).objects
      ]_vars

\* C6: removeStaticCanvasMarchers leaves no StaticCanvasMarcher and removePathways
\* no Pathway, and each leaves the objects of every other kind as they were.
C6_SweepsOwnKindOnly ==
    [][/\ op'.name = "removeStaticCanvasMarchers" =>
            /\ getStaticCanvasMarchers(objects') = <<>>
            /\ OfOtherKinds(objects', "StaticCanvasMarcher")
                   = OfOtherKinds(objects, "StaticCanvasMarcher")
       /\ op'.name = "removePathways" =>
            /\ getPathways(objects') = <<>>
            /\ OfOtherKinds(objects', "Pathway") = OfOtherKinds(objects, "Pathway")
      ]_vars

\* the ghosts have been swept from a canvas that holds markers and pathways
C6_Witness ==
    /\ op.name = "removeStaticCanvasMarchers"
    /\ getCanvasMarchers(objects) # <<>>
    /\ getPathways(objects) # <<>>

\* the end-page positions that have a start-page position of the same marcher
Matched(s, e) == {i \in 1..Len(e) : FindByMarcher(s, e[i].marcher_id) # 0}

\* C7: renderPathways appends one Pathway per end-page position that has a
\* start-page position of the same marcher and nothing else; every end-page
\* position without one is reported, and the positions after it are still
\* processed.
C7_OnePathwayPerMatch ==
    \A s \in SelectedPageLists, e \in OtherPageLists :
        LET r == renderPathwaysResult(objects, s, e)
            n == Len(objects)
            new == SubSeq(r.objects, n + 1, Len(r.objects))
        IN /\ Len(r.objects) = n + Cardinality(Matched(s, e))
           /\ SubSeq(r.objects, 1, n) = objects
           /\ \A k \in 1..Len(new) : new[k].kind = "Pathway"
           /\ \A m \in MarcherIds :
                 Cardinality({k \in 1..Len(new) : new[k].marcher_id = m})
                   = Cardinality({i \in Matched(s, e) : e[i].marcher_id = m})
           /\ r.errors = Len(e) - Cardinality(Matched(s, e))

\* a call has reported a missing start position and still drawn a pathway
C7_Witness ==
    /\ op.name = "renderPathways"
    /\ op.errors >= 1
    /\ objects[Len(objects)].kind = "Pathway"

\* C8: after setSelectedCanvasMarchers with more than one selected object the
\* active object is an active selection whose members are exactly the
\* CanvasMarchers among the selected objects.
C8_CompositeOfSelectedMarkers ==
    [][\A in \in SelectionInputs :
          (/\ Cardinality(in[1]) > 1
           /\ setSelectedCanvasMarchers(in[1], in[2], in[3])) =>
              /\ activeObject'.type = "activeSelection"
              /\ activeObject'.members
                    = {i \in in[1] : objects[i].kind = "CanvasMarcher"}]_vars

\* C9: after setSelectedCanvasMarchers the published selected marchers are
\* exactly the marchers of allMarchers bound to an active CanvasMarcher, and
\* when several CanvasMarchers and nothing else were selected they include
\* the marcher of each of them.
C9_PublishedSelection ==
    [][\A in \in SelectionInputs :
          setSelectedCanvasMarchers(in[1], in[2], in[3]) =>
              /\ selectedMarchers'
                    = {m \in in[3] :
                         \E i \in getActiveObjects(activeObject') :
                            /\ objects'[i].kind = "CanvasMarcher"
                            /\ objects'[i].marcher_id = m}
              /\ (/\ Cardinality(in[1]) > 1
                  /\ \A i \in in[1] : objects[i].kind = "CanvasMarcher")
                    => \A i \in in[1] : objects[i].marcher_id \in in[3]
                                           => objects[i].marcher_id
                                                \in selectedMarchers']_vars

\* C10: in every state reachable by wheel events the zoom handed to the
\* viewport lies within [0.35, 25].
C10_ZoomClamp == 35 <= zoom /\ zoom <= 2500

\* a wheel event has driven the zoom to the lower limit
C10_Witness == op.name = "handleMouseWheel" /\ zoom = 35

\* C11: at most one zoom timer is pending at any time, and it is the one the
\* canvas holds; every wheel event leaves exactly the timer it armed, and when
\* that timer expires none is left, so a burst of wheel events is followed by
\* one expiry.
C11_OnePendingTimer ==
    /\ [](Cardinality(timers) <= 1 /\ timers \subseteq {zoomTimeout})
    /\ [][/\ op'.name = "handleMouseWheel" => timers' = {zoomTimeout'}
          /\ (\E t \in TimerIds : zoomTimeoutCallback(t)) => timers' = {}]_vars

\* a wheel event has replaced a pending timer
C11_Witness ==
    op.name = "handleMouseWheel" /\ op.cleared /\ timers = {zoomTimeout}

\* C12: the timer armed by a wheel event expires unless a later wheel event
\* replaces it, and then the grid cache is off; an expiry switches the cache
\* off with one renderAll and leaves no timer to force another, and the cache
\* is switched on again only by a wheel event.
C12_RedrawAfterGesture ==
    /\ \A t \in TimerIds :
          (zoomTimeout = t /\ t \in timers)
              ~> (zoomTimeout # t \/ (timers = {} /\ ~objectCaching))
    /\ [][/\ (\E t \in TimerIds : zoomTimeoutCallback(t))
              => /\ op'.name = "zoomTimeoutCallback:renderAll"
                 /\ ~objectCaching' /\ timers' = {}
          /\ (~objectCaching /\ objectCaching')
              => op'.name = "handleMouseWheel"]_vars

\* the timer of a gesture has expired
C12_Witness ==
    /\ op.name = "zoomTimeoutCallback:renderAll"
    /\ zoomTimeout \in TimerIds /\ timers = {} /\ ~objectCaching

\* C13: a step size of a page with 0 counts displays as Undefined, whatever
\* the start and the end, the same point included.
C13_ZeroCountsUndefined ==
    (op.name = "displayString" /\ op.args.counts = 0)
        => op.result = [text |-> "Undefined"]

\* a page with 0 counts and a marcher that does not move
C13_Witness ==
    /\ op.name = "displayString" /\ op.args.counts = 0
    /\ op.args.start = op.args.end
    /\ op.result = [text |-> "Undefined"]

\* C14: on a page whose counts are not 0 a step size displays as Hold exactly
\* when start and end have the same x and the same y.
C14_HoldIffSamePoint ==
    (op.name = "displayString" /\ op.args.counts # 0)
        => (op.result = [text |-> "Hold"]
                <=> (/\ op.args.start.x = op.args.end.x
                     /\ op.args.start.y = op.args.end.y))

\* a marcher that moves along x only, on a page with counts
C14_Witness ==
    /\ op.name = "displayString" /\ op.args.counts # 0
    /\ op.args.start.x # op.args.end.x /\ op.args.start.y = op.args.end.y
    /\ op.result.text = "to 5"

\* the step size of a displayString call, and the length of its move
ValueOf(args) == StepSizeOf(args).stepsPerFiveYards
DistanceOf(args) == Sqrt(DistanceSquared(args.start, args.end))
Moving(args) == args.counts > 0 /\ DistanceOf(args) # 0

Negative(v) == v = NegInfinity \/ (IsNum(v) /\ v.n < 0)
ValueLess(a, b) ==
    \/ Less(a, b)
    \/ IsNum(a) /\ b = Infinity
ValueEqual(a, b) == a = b /\ a # NaN

\* C16: compare(a, b) is positive exactly when a has the smaller value,
\* negative exactly when b has the smaller value, and 0 when the values are
\* equal.
C16_CompareSign ==
    op.name = "compare" =>
        LET a == op.args.a.stepsPerFiveYards
            b == op.args.b.stepsPerFiveYards
        IN /\ Positive(op.result) <=> ValueLess(a, b)
           /\ Negative(op.result) <=> ValueLess(b, a)
           /\ ValueEqual(a, b) => op.result = Num(0, 1)

\* the step sizes the batch can compute: those of the marchers given that have
\* a position on the page and on the page before it
Computable(args) ==
    LET startingPages ==
            {mp \in args.marcherPages : mp.page_id = args.page.id - 1}
        endingPages == {mp \in args.marcherPages : mp.page_id = args.page.id}
        moving == {i \in 1..Len(args.marchers) :
                      /\ find(startingPages, args.marchers[i]) # Undefined
                      /\ find(endingPages, args.marchers[i]) # Undefined}
    IN {createStepSizeForMarcher(find(startingPages, args.marchers[i]),
                                 find(endingPages, args.marchers[i]),
                                 args.page, args.fieldProperties) : i \in moving}

\* C17: of a non-empty set of computable step sizes the batch returns as max
\* one with the least value and as min one with the greatest value, a hold
\* being greater than every number; of an empty set it returns undefined for
\* both.
C17_MinMax ==
    op.name = "getMinAndMaxStepSizesForMarchers" =>
        LET stepSizes == Computable(op.args)
        IN IF stepSizes = {}
           THEN op.result = [min |-> Undefined, max |-> Undefined]
           ELSE /\ op.result.max \in stepSizes
                /\ op.result.min \in stepSizes
                /\ \A s \in stepSizes :
                      /\ ~ValueLess(s.stepsPerFiveYards,
                                    op.result.max.stepsPerFiveYards)
                      /\ ~ValueLess(op.result.min.stepsPerFiveYards,
                                    s.stepsPerFiveYards)

\* three marchers: a hold, 8 to 5 and 4 to 5, the hold first in the store
C17_Witness ==
    /\ op.name = "getMinAndMaxStepSizesForMarchers"
    /\ Cardinality(Computable(op.args)) = 3
    /\ op.result.min.stepsPerFiveYards = Infinity
    /\ op.result.min.marcher_id = 1
    /\ op.result.max.stepsPerFiveYards = Num(4, 1)

\* the chord of an event: its key without its case, control or meta, alt, shift
ChordOf(e) ==
    [char |-> e.key.char, control |-> e.ctrlKey \/ e.metaKey,
     alt |-> e.altKey, shift |-> e.shiftKey]
\* the chord an action declares
ChordOfAction(action) ==
    LET shortcut == RegisteredActionsObjects[action].keyboardShortcut
    IN [char |-> shortcut.key.char, control |-> shortcut.control,
        alt |-> shortcut.alt, shift |-> shortcut.shift]
BoundTo(e) == {action \in Actions : ChordOfAction(action) = ChordOf(e)}

\* C18: a key-down event with the focus in an input, a textarea, a select or a
\* contenteditable element triggers no action and its default is not
\* prevented, whatever the key; with the focus elsewhere the chord bound to an
\* action triggers that action.
C18_DispatchGating ==
    op.name = "handleKeyDown" =>
        /\ op.event.focus \in {"input", "textarea", "select", "contenteditable"}
              => (op.triggered = <<>> /\ ~op.defaultPrevented)
        /\ op.event.focus \notin {"input", "textarea", "select", "contenteditable"}
              => \A action \in BoundTo(op.event) : op.triggered = <<action>>

\* Ctrl+Shift+P pressed in a text input: nothing is triggered
C18_Witness ==
    /\ op.name = "handleKeyDown" /\ op.event.focus = "input"
    /\ BoundTo(op.event) = {"setAllMarchersToPreviousPage"}
    /\ op.triggered = <<>> /\ ~op.defaultPrevented

\* C19: outside the editable controls, a key-down event with the key of an
\* action's chord in either case and exactly its modifiers triggers that action
\* once and no other, and prevents the default; an event whose chord is bound
\* to no action triggers nothing and does not prevent the default.
C19_ChordLookup ==
    (op.name = "handleKeyDown" /\ ~matches(op.event.focus)) =>
        /\ \A action \in BoundTo(op.event) :
              op.triggered = <<action>> /\ op.defaultPrevented
        /\ BoundTo(op.event) = {} => (op.triggered = <<>> /\ ~op.defaultPrevented)

Missing(a) == a.selectedPage = Undefined \/ a.fieldProperties = Undefined

\* C20: without a selected page or without field properties every action
\* reports an error and does nothing else, and a dispatch changes neither the
\* selected page, isPlaying, the UiSettings nor the positions and submits no
\* patch list.
C20_MissingPrecondition ==
    /\ [](Missing(handler) =>
            \A action \in Actions : triggerAction(handler, action) = Reported)
    /\ [][(/\ op'.name \in {"handleKeyDown", "onclick"}
           /\ op'.triggered # <<>>
           /\ Missing(app))
          => (op'.errors = 1 /\ ~op'.threw /\ app' = app)]_vars

\* snap to grid is clicked in a show that has a page selected but no field
\* properties
C20_Witness ==
    /\ op.name = "onclick" /\ op.triggered = <<"snapToNearestWhole">>
    /\ app.selectedPage # Undefined /\ app.fieldProperties = Undefined
    /\ op.errors = 1 /\ app.updates = <<>>

\* the dispatches of the handler
Dispatched(o) == o.name \in {"handleKeyDown", "onclick"}
\* the positions of the page before the selected page of a rendering
PreviousPositions(h) ==
    {mp \in h.marcherPages : OnPageOf(mp, getPreviousPage(h.selectedPage))}

\* C21: with a selected page and field properties, "set all marchers to
\* previous page" hands updateMarcherPages one list, which holds exactly one
\* entry per position of the previous page, with the coordinates of that
\* position and the id of the selected page; no action hands over more than
\* one list, and a dispatch of the action adds that one list to the
\* submissions and nothing else.
C21_BatchAtomicity ==
    /\ [](~Missing(handler) =>
            LET outcome == triggerAction(handler, "setAllMarchersToPreviousPage")
                onPrevious == PreviousPositions(handler)
                changes == outcome.submitted[1]
            IN /\ Len(outcome.submitted) = 1
               /\ Len(changes) = Cardinality(onPrevious)
               /\ \A mp \in onPrevious :
                     Cardinality({i \in DOMAIN changes :
                         changes[i] = [mp EXCEPT
                                          !.page_id = handler.selectedPage.id]}) = 1
               /\ \A i \in DOMAIN changes :
                     changes[i].page_id = handler.selectedPage.id
               /\ \A action \in Actions :
                     Len(triggerAction(handler, action).submitted) <= 1)
    /\ [][(/\ Dispatched(op')
           /\ op'.triggered = <<"setAllMarchersToPreviousPage">>
           /\ ~Missing(handler))
          => app'.updates =
                 app.updates \o
                 triggerAction(handler, "setAllMarchersToPreviousPage").submitted]_vars

\* the chord of the action is pressed on a page whose previous page holds two
\* marchers: one list of two entries is submitted
C21_Witness ==
    /\ op.name = "handleKeyDown"
    /\ op.triggered = <<"setAllMarchersToPreviousPage">>
    /\ Len(app.updates) = 1 /\ Len(app.updates[1]) = 2
    /\ \A i \in 1..2 : app.updates[1][i].page_id = handler.selectedPage.id

\* the fetch of the selection of the list, if there is a selection
Selected(l) == l.selectedPage # Undefined \/ l.selectedMarcher # Undefined
CurrentFetch(l) == getMarcherPages(idToUse(l.selectedPage, l.selectedMarcher))

\* C22: the positions the list shows are never those of a fetch made for an
\* earlier selection, and once no fetch is pending the list shows the
\* positions fetched for the current selection.
C22_StaleDiscarded ==
    /\ (marcherPageList.marcherPages # {}) =>
           /\ Selected(marcherPageList)
           /\ marcherPageList.marcherPages = CurrentFetch(marcherPageList)
    /\ (Selected(marcherPageList) /\ marcherPageList.pending = {}) =>
           marcherPageList.marcherPages = CurrentFetch(marcherPageList)

\* the toggle actions and the UiSettings flag of each
Toggles == {"lockX", "lockY", "togglePreviousPagePaths", "toggleNextPagePaths"}
FlagOf(action) ==
    CASE action = "lockX" -> "lockX"
      [] action = "lockY" -> "lockY"
      [] action = "togglePreviousPagePaths" -> "previousPaths"
      [] action = "toggleNextPagePaths" -> "nextPaths"

\* C23: with a selected page and field properties, every dispatch of a toggle
\* action flips the flag of the action in the UiSettings, whether or not the
\* handler was created anew since the last dispatch.
C23_TogglesFlip ==
    [][(/\ Dispatched(op')
        /\ Len(op'.triggered) = 1
        /\ op'.triggered[1] \in Toggles
        /\ ~Missing(app))
       => app'.uiSettings[FlagOf(op'.triggered[1])]
              = ~app.uiSettings[FlagOf(op'.triggered[1])]]_vars

Navigation == {"nextPage", "previousPage", "firstPage", "lastPage", "playPause"}

\* C24: with a selected page and field properties, a navigation or playback
\* action submits no patch list, reports nothing and calls at most the setter
\* of the selected page (playPause: the setter of isPlaying); a dispatch of it
\* leaves the submissions, the positions, the UiSettings and the field
\* properties as they are, playPause leaves the selected page and the others
\* leave isPlaying.
C24_NavigationFrame ==
    /\ [](~Missing(handler) =>
            \A action \in Navigation :
                LET outcome == triggerAction(handler, action)
                IN /\ outcome.submitted = <<>>
                   /\ outcome.errors = 0 /\ ~outcome.threw
                   /\ IF action = "playPause"
                      THEN outcome.setter = "setIsPlaying"
                      ELSE outcome.setter \in {"none", "setSelectedPage"})
    /\ [][(/\ Dispatched(op')
           /\ Len(op'.triggered) = 1
           /\ op'.triggered[1] \in Navigation)
          => /\ app'.updates = app.updates
             /\ app'.marcherPages = app.marcherPages
             /\ app'.uiSettings = app.uiSettings
             /\ app'.fieldProperties = app.fieldProperties
             /\ op'.triggered[1] = "playPause" =>
                    app'.selectedPage = app.selectedPage
             /\ op'.triggered[1] # "playPause" =>
                    app'.isPlaying = app.isPlaying]_vars

\* the next page has been selected with a lock set and a patch list waiting
C24_Witness ==
    /\ op.name = "handleKeyDown" /\ op.triggered = <<"nextPage">>
    /\ ~Missing(handler)
    /\ app.selectedPage = getNextPage(handler.selectedPage)
    /\ app.uiSettings.lockX /\ app.updates # <<>>

\* the key-down event of the chord an action declares, with the focus on the
\* canvas
ChordEvent(action) ==
    LET shortcut == RegisteredActionsObjects[action].keyboardShortcut
    IN [key |-> shortcut.key, ctrlKey |-> shortcut.control, metaKey |-> FALSE,
        altKey |-> shortcut.alt, shiftKey |-> shortcut.shift,
        focus |-> "canvas"]

\* C25: in every state, the key-down event of the chord of an action hands
\* triggerAction that action and no other, as a click on a button registered
\* for the action does, so that the stores after the one are the stores after
\* the other.
C25_ButtonAsChord ==
    \A action \in Actions :
        LET viaChord == handleKeyDownResult(ChordEvent(action))
            viaButton == Dispatch(<<action>>, FALSE)
        IN /\ viaChord.triggered = viaButton.triggered
           /\ Len(viaChord.triggered) = 1
           /\ Applied(app, triggerAction(handler, viaChord.triggered[1]))
                  = Applied(app, triggerAction(handler, action))

\* the button of the previous page has been clicked and the page has changed
C25_Witness ==
    /\ op.name = "onclick" /\ op.event = "previousPage"
    /\ ~Missing(handler)
    /\ app.selectedPage = getPreviousPage(handler.selectedPage)

\* C26: no dispatch of an action throws.
C26_NoException == Dispatched(op) => ~op.threw

\* C27: after every call of setSelectedCanvasMarchers a render pass is
\* requested.
C27_RenderRequested ==
    [][op'.name = "setSelectedCanvasMarchers" => renderPending']_vars

\* r is the multiple of step nearest to v, a half going up
NearestWhole(r, v, step) ==
    r % step = 0 /\ 2 * (r - v) <= step /\ 2 * (v - r) < step

\* C28: a dispatch of snap-to-grid with a selected page and field properties
\* does not throw and submits a batch that holds one patch for each position
\* of a selected marcher on the selected page and nothing else; the patch has
\* x rounded to the nearest whole step unless lockX is set, y likewise unless
\* lockY is set, and a coordinate of a locked axis as it is.
C28_SnapBatch ==
    (/\ Dispatched(op)
     /\ op.triggered = <<"snapToNearestWhole">>
     /\ ~Missing(handler))
    => LET selectedPositions ==
               {mp \in handler.marcherPages :
                   /\ mp.page_id = handler.selectedPage.id
                   /\ mp.marcher_id \in handler.selectedMarchers}
           step == handler.fieldProperties.pixelsPerStep
       IN /\ ~op.threw
          /\ app.updates # <<>>
          /\ LET batch == app.updates[Len(app.updates)]
             IN /\ Len(batch) = Cardinality(selectedPositions)
                /\ \A mp \in selectedPositions :
                      \E i \in DOMAIN batch :
                          /\ batch[i].marcher_id = mp.marcher_id
                          /\ batch[i].page_id = mp.page_id
                          /\ IF handler.uiSettings.lockX
                             THEN batch[i].x = mp.x
                             ELSE NearestWhole(batch[i].x, mp.x, step)
                          /\ IF handler.uiSettings.lockY
                             THEN batch[i].y = mp.y
                             ELSE NearestWhole(batch[i].y, mp.y, step)

\* C29: in every state, after a call of setSelectedCanvasMarchers with any
\* selected objects and any settings, an active object that exists, a single
\* object or a composite selection, has lockMovementX equal to lockX and
\* lockMovementY equal to lockY of the settings of the call.
C29_LockApplied ==
    \A selectedObjects \in SUBSET Selectable(objects),
       uiSettings \in UiSettingsSet :
        LET result == setSelectedCanvasMarchersResult(
                          objects, activeObject, selectedObjects, uiSettings)
            active == result.activeObject
            locked == IF active.type = "object"
                      THEN result.objects[active.rank] ELSE active
        IN active.type # "none" =>
               /\ locked.lockMovementX = uiSettings.lockX
               /\ locked.lockMovementY = uiSettings.lockY

\* a call has locked the y axis of a single active marker that was locked on
\* the x axis
C29_Witness ==
    /\ op.name = "setSelectedCanvasMarchers"
    /\ activeObject.type = "object"
    /\ objects[activeObject.rank].kind = "CanvasMarcher"
    /\ ~objects[activeObject.rank].lockMovementX
    /\ objects[activeObject.rank].lockMovementY

\* the elements of a sequence
Elements(seq) == {seq[i] : i \in DOMAIN seq}

\* C30: the result of createStepSizesForMarchers for a page of a show holds,
\* for each marcher given that has a position on the page and on the page
\* that stands immediately before it in the order of the show, the step size
\* of the move from that position, and holds no step size for any other
\* marcher, whatever the identities of the pages are.
C30_StartFromPrecedingPage ==
    op.name = "createStepSizesForMarchers" =>
        LET args == op.args
            endingPages ==
                {mp \in args.marcherPages : mp.page_id = args.page.id}
            startingPages ==
                {mp \in args.marcherPages :
                    /\ args.index > 1
                    /\ mp.page_id = args.show[args.index - 1]}
        IN \A m \in Elements(args.marchers) :
               LET ofMarcher ==
                       {s \in Elements(op.result) : s.marcher_id = m}
               IN IF /\ find(startingPages, m) # Undefined
                     /\ find(endingPages, m) # Undefined
                  THEN ofMarcher =
                           {createStepSizeForMarcher(
                                find(startingPages, m), find(endingPages, m),
                                args.page, args.fieldProperties)}
                  ELSE ofMarcher = {}

\* the positions the marchers have on the page that stands before the page
\* of the call in the order of the show: none for the first page
StartPositions(args) ==
    {mp \in args.marcherPages :
        args.index > 1 /\ mp.page_id = args.show[args.index - 1]}
EndPositions(args) == {mp \in args.marcherPages : mp.page_id = args.page.id}

\* C31: createStepSizeForMarcher returns undefined when the start position or
\* the page is undefined; the result of createStepSizesForMarchers holds no
\* undefined element, at most one step size per marcher, no step size of a
\* marcher without a start position or without an end position, and nothing
\* at all for the first page of the show.
C31_OnlyDefinedStepSizes ==
    /\ op.name = "createStepSizeForMarcher" =>
           (op.args.startingPage = Undefined \/ op.args.page = Undefined
                => op.result = Undefined)
    /\ op.name = "createStepSizesForMarchers" =>
           /\ \A i \in DOMAIN op.result : op.result[i] # Undefined
           /\ \A i, j \in DOMAIN op.result :
                  op.result[i].marcher_id = op.result[j].marcher_id => i = j
           /\ \A i \in DOMAIN op.result :
                  /\ find(StartPositions(op.args), op.result[i].marcher_id)
                         # Undefined
                  /\ find(EndPositions(op.args), op.result[i].marcher_id)
                         # Undefined
           /\ op.args.index = 1 => op.result = <<>>

UniquePositions(marcherPages) ==
    \A a, b \in marcherPages :
        (a.marcher_id = b.marcher_id /\ a.page_id = b.page_id) => a = b

\* the positions of the store once the patch lists of a dispatch are applied
AfterDispatch(a, submitted) ==
    IF submitted = <<>> THEN a.marcherPages
    ELSE updateMarcherPages(a.marcherPages, submitted[1])

\* the copy of the previous page has been made on page p: what each marcher
\* has on the page before p in the store it has on p, and the positions of
\* the other pages are as before
CopiedFromPrevious(a, p, after) ==
    LET q == getPreviousPage(p)
    IN /\ \A mp \in a.marcherPages :
              OnPageOf(mp, q) => [mp EXCEPT !.page_id = p.id] \in after
       /\ {mp \in after : mp.page_id # p.id}
              = {mp \in a.marcherPages : mp.page_id # p.id}

\* C33: the store never holds two positions of one marcher on one page, and
\* a dispatch of "set all marchers to previous page" by a rendering that has
\* page p selected submits patches after which every marcher with a position
\* on the page before p has the same coordinates on p, the positions of every
\* other page being unchanged.
C33_CopyKeepsPositions ==
    /\ [](UniquePositions(app.marcherPages))
    /\ [][(/\ Dispatched(op')
           /\ op'.triggered = <<"setAllMarchersToPreviousPage">>)
              => CopiedFromPrevious(
                     app, handler.selectedPage,
                     AfterDispatch(app, SubSeq(app'.updates,
                                               Len(app.updates) + 1,
                                               Len(app'.updates))))]_vars

\* C34: when the fetch started for a selection of both a marcher and a page
\* resolves while that selection is still the current one, the list shows the
\* position of that marcher on that page and no other.
C34_SinglePosition ==
    [][\A id \in FetchIds :
          (/\ resolve(id)
           /\ marcherPageList.selectedPage # Undefined
           /\ marcherPageList.selectedMarcher # Undefined
           /\ id = idToUse(marcherPageList.selectedPage,
                           marcherPageList.selectedMarcher))
              => marcherPageList'.marcherPages =
                     {mp \in ShowMarcherPages :
                         /\ mp.page_id = marcherPageList.selectedPage.id
                         /\ mp.marcher_id = marcherPageList.selectedMarcher.id}]_vars

\* the string of the chord an action declares
KeyStringOf(action) ==
    KeyboardShortcut_toString(RegisteredActionsObjects[action].keyboardShortcut)

\* no two actions declare the same chord, and the lookup table has one entry
\* per action, which maps the chord of the action to it
NoActionLost ==
    /\ \A a, b \in Actions : KeyStringOf(a) = KeyStringOf(b) => a = b
    /\ Cardinality(DOMAIN keyboardShortcutDictionary) = Cardinality(Actions)
    /\ \A action \in Actions :
          /\ KeyStringOf(action) \in DOMAIN keyboardShortcutDictionary
          /\ keyboardShortcutDictionary[KeyStringOf(action)] = action

\* C35: no two registered actions declare the same chord; the lookup table
\* has one entry per action and maps the chord of each action to that action,
\* and a key-down event outside the editable controls that is the chord of an
\* action triggers that action.
C35_ChordsDistinct ==
    /\ NoActionLost
    /\ op.name = "handleKeyDown" =>
           \A action \in Actions :
               op.event = ChordEvent(action) => op.triggered = <<action>>

\* the chord of lockX, the first of two neighbouring toggles, was pressed
C35_Witness ==
    /\ op.name = "handleKeyDown" /\ op.event = ChordEvent("lockX")
    /\ op.triggered = <<"lockX">>

\* C36: a dispatch of a toggle action leaves the three flags of the other
\* toggles and isPlaying at the values they have in the application when the
\* action is dispatched.
C36_ToggleFrame ==
    [][\A action \in Toggles :
          (Dispatched(op') /\ op'.triggered = <<action>>)
              => /\ \A flag \in {FlagOf(other) : other \in Toggles \ {action}} :
                       app'.uiSettings[flag] = app.uiSettings[flag]
                 /\ app'.isPlaying = app.isPlaying]_vars

\* the actions that look a page up from the selected one, and the page at
\* which the lookup returns none
AtTheEnd(action) ==
    CASE action = "nextPage" -> getLastPage
      [] action = "previousPage" -> getFirstPage

\* C37: a navigation action selects only a page of the show, so a dispatch
\* of one never leaves the application without a selected page when it had
\* one; nextPage dispatched with the last page selected, and previousPage
\* with the first, call no setter and leave the selected page as it is.
C37_PageStaysSelected ==
    /\ [](~Missing(handler) =>
            \A action \in Navigation :
                LET outcome == triggerAction(handler, action)
                IN /\ outcome.setter = "setSelectedPage"
                       => outcome.value \in Pages
                   /\ (/\ action \in {"nextPage", "previousPage"}
                       /\ handler.selectedPage = AtTheEnd(action))
                          => outcome.setter = "none")
    /\ [][(/\ Dispatched(op')
           /\ Len(op'.triggered) = 1
           /\ op'.triggered[1] \in Navigation)
          => /\ app.selectedPage # Undefined => app'.selectedPage \in Pages
             /\ (/\ ~Missing(handler)
                 /\ op'.triggered[1] \in {"nextPage", "previousPage"}
                 /\ handler.selectedPage = AtTheEnd(op'.triggered[1]))
                    => app'.selectedPage = app.selectedPage]_vars

\* the next page was asked for with the last page selected
C37_Witness ==
    /\ op.name = "handleKeyDown" /\ op.triggered = <<"nextPage">>
    /\ ~Missing(handler)
    /\ handler.selectedPage = getLastPage
    /\ app.selectedPage = getLastPage

\* what the table body shows: "Loading...", "No marchers found" or the rows
Shown(l) ==
    IF l.isLoading THEN "Loading..."
    ELSE IF l.marcherPages = {} THEN "No marchers found" ELSE "rows"

\* C38: while the fetch started for the current selection has not settled
\* the loading flag is true, and while any fetch is pending the list does not
\* show "No marchers found".
C38_LoadingWhilePending ==
    /\ (/\ Selected(marcherPageList)
        /\ idToUse(marcherPageList.selectedPage,
                   marcherPageList.selectedMarcher) \in marcherPageList.pending)
           => marcherPageList.isLoading
    /\ marcherPageList.pending # {}
           => Shown(marcherPageList) # "No marchers found"

====
